---- MODULE Spec2Model ----
(***************************************************************************)
(* A model of zikichombo.org/plug: the I/O node (io.go), its connection    *)
(* workers (conn.serve), packets and channel maps, and the processors of   *)
(* proc.go.  A node is a record; its goroutines (the caller of Run and one *)
(* worker per registered connection) are interleaved step by step, and a   *)
(* send/receive on an unbuffered Go channel is one joint step of the two   *)
(* goroutines that meet on it.  Sample values are abstracted away: the     *)
(* model tracks frame counts, slice lengths, errors and Close calls.       *)
(* Concurrent callers of the wiring methods and the goroutines of          *)
(* Graph.Run (part_001) have variables of their own.                       *)
(***************************************************************************)
EXTENDS Integers, Sequences, FiniteSets, TLC

VARIABLES
  node,      \* node id -> the fields of struct node, the position of the
             \* goroutine running Run, and the state of each conn's worker
  streams,   \* endpoint id -> a sound.Source / sound.Sink / sound.Pipe
  consumer,  \* the test's reading loop: frames received so far, EOF seen,
             \* and the number F of frames its bounded source was made with
  callers,   \* the goroutines that make wiring calls concurrently: the
             \* call of each and its position in it
  graph,     \* a Graph: its nodes, the goroutines of Graph.Run, its
             \* WaitGroup and its error channel
  test       \* a packet and two blocks, as packet_test.go makes them, and
             \* what packet.put returned

vars == <<node, streams, consumer, callers, graph, test>>

-----------------------------------------------------------------------------
(* Bounds of the model *)

\* Connections that may be registered per direction on one node.
MaxConns == 2
\* Frames per block asked by NextFrames(); stands for DefaultInFrames and
\* DefaultOutFrames (1024), scaled down.
BlockFrames == 2
\* Largest total number of frames F of the bounded source of a chain; stands
\* for the 44100 frames of ops.Limit(gen.Noise(), 44100).
MaxFrames == 3
\* The number of goroutines that make wiring calls at the same time.
MaxCallers == 2
\* The largest number of nodes of a Graph.
MaxNodes == 2
\* The largest channel count of a form given to a packet on its own.
MaxChannels == 3

(* Program constants *)

\* sound.NewForm(44100*freq.Hertz, 1): the mono form of TestIOMonoChain.
MonoChannels == 1
\* sound.StereoCd(): the two channel form of TestIOMultiAddOut.
StereoChannels == 2

\* ChannelMode (proc.go)
MonoMode == "MonoMode"
FullMode == "FullMode"

-----------------------------------------------------------------------------
(* Errors.  Every error value is a record so that values compare. *)

Err(kind) == [kind |-> kind, IsInput |-> FALSE, Chan |-> -1]
Nil == Err("nil")
EOF == Err("EOF")                 \* io.EOF
ErrStream == Err("ErrStream")     \* an error of an external Receive or Send
ErrClosed == Err("ErrClosed")     \* an external call on a closed endpoint
ErrProc == Err("ErrProc")         \* fmt.Errorf("cannot make mono ...")
ErrFrequency == Err("ErrFrequency")  \* fmt.Errorf("frequency mismatch ...")
ErrChannels == Err("ErrChannels")    \* fmt.Errorf("channel mismatch ...")
\* fmt.Errorf("channel %d already has an input", c)
ErrHasInput(c) == [kind |-> "ErrHasInput", IsInput |-> TRUE, Chan |-> c]

\* dce(in, c): a *DisconnectedError
dce(in, c) == [kind |-> "Disconnected", IsInput |-> in, Chan |-> c]

Min(S) == CHOOSE x \in S : \A y \in S : x <= y
Max(S) == CHOOSE x \in S : \A y \in S : x >= y

-----------------------------------------------------------------------------
(* Channel maps: cmap.go *)

\* newCmap(v, cs...): m is the forward table over the node's channels, i the
\* inverse table over the connection's channels; -1 is "unmapped".  The loop
\* "for i, c := range cs { res.m[c] = i }" leaves in m[c] the last i.
newCmap(nC, cs) ==
  IF Len(cs) = 0
  THEN [m |-> [c \in 0..(nC - 1) |-> c], i |-> [c \in 0..(nC - 1) |-> c]]
  ELSE [m |-> [c \in 0..(nC - 1) |->
                 LET at == {k \in 1..Len(cs) : cs[k] = c}
                 IN IF at = {} THEN -1 ELSE Max(at) - 1],
        i |-> [k \in 0..(Len(cs) - 1) |-> cs[k + 1]]]

mapC(cm, c) == cm.m[c]
imapC(cm, c) == cm.i[c]

-----------------------------------------------------------------------------
(* Packets: packet.go *)

\* packet.init(v, cs...) on the zero packet, then the assignment of src and
\* snk by the wiring call (0 is a nil endpoint).  len is len(samples).
\* resp and coll are history flags: the worker has stored the outcome of the
\* external call of the current request; the node has collected it.  io is
\* the endpoint of the external call made for the current request.
packetInit(nC, cs, src, snk) ==
  [cmap |-> newCmap(nC, cs),
   err |-> Nil,
   n |-> 0,
   len |-> 0,
   nC |-> IF Len(cs) = 0 THEN nC ELSE Len(cs),
   src |-> src,
   snk |-> snk,
   resp |-> FALSE,
   coll |-> FALSE,
   io |-> 0]

\* newConn: a connection whose worker has not been started.
newConn == [st |-> "new", pkt |-> 0]

\* buffer(d, c, f): packet.go 69-77.  A slice of samples is its backing
\* array arr, up to the capacity, and its length len.
buffer(d, c, f) ==
  LET N == c * f
  IN IF Len(d.arr) < N
     THEN [arr |-> [k \in 1..((5 * N) \div 3) |->
                      IF k <= d.len THEN d.arr[k] ELSE 0],
           len |-> N]
     ELSE [d EXCEPT !.len = N]

\* copy(dst[dStart:dStart+n], src[sStart:sStart+n]) on arrays.
copy(dst, dStart, src, sStart, n) ==
  [k \in 1..Len(dst) |->
     IF dStart < k /\ k <= dStart + n THEN src[sStart + (k - dStart)]
     ELSE dst[k]]

\* The mutation of packet.get that reads the block's channel cc for the
\* local channel cc.
RECURSIVE getLoopUnmapped(_, _, _, _, _)
getLoopUnmapped(arr, cm, src, nC, cc) ==
  IF cc >= nC THEN arr
  ELSE LET frms == src.Frames
       IN getLoopUnmapped(copy(arr, cc * frms, src.Samples, cc * frms, frms),
                          cm, src, nC, cc + 1)

\* The loop of packet.get from local channel cc on (packet.go 57-64).
RECURSIVE getLoop(_, _, _, _, _)
getLoop(arr, cm, src, nC, cc) ==
  IF cc >= nC THEN arr
  ELSE LET c == imapC(cm, cc)
           frms == src.Frames
       IN getLoop(copy(arr, cc * frms, src.Samples, c * frms, frms),
                  cm, src, nC, cc + 1)

\* p.get(src): the packet after it gathered its channels from block src.
packetGet(p, src) ==
  LET nC == Cardinality(DOMAIN p.cmap.i)
      frms == src.Frames
      sl == buffer(p.samples, nC, frms)
  IN [p EXCEPT !.samples = [sl EXCEPT !.arr = getLoop(sl.arr, p.cmap, src, nC, 0)],
               !.n = frms]

\* The loop of packet.put from the block's channel c on (packet.go 37-47).
RECURSIVE putLoop(_, _, _, _)
putLoop(smp, p, nC, c) ==
  IF c >= nC THEN smp
  ELSE LET cc == mapC(p.cmap, c)
           frms == p.n
       IN IF cc = -1
          THEN putLoop(smp, p, nC, c + 1)
          ELSE putLoop(copy(smp, c * frms, p.samples.arr, cc * frms, frms),
                       p, nC, c + 1)

\* p.put(dst): the block after the packet scattered its channels into it,
\* and the value put returns.
packetPut(p, dst) ==
  [dst |-> [dst EXCEPT !.Samples = putLoop(dst.Samples, p, dst.Channels, 0)],
   ret |-> p.n]

-----------------------------------------------------------------------------
(* Endpoints.  kind "source" and "sink" are arbitrary external endpoints,   *)
(* "limit" is a source of exactly rem more frames (ops.Limit), "pipe" is    *)
(* sound.Pipe: the block written to its sink end is read from its source    *)
(* end.  rcl and wcl count the Close calls on the source and the sink end.  *)

Stream(kind, ch, rem) ==
  [kind |-> kind, ch |-> ch, rem |-> rem, buf |-> <<>>, rcl |-> 0, wcl |-> 0]

\* An endpoint id no wiring call has used yet.
NoStream == Stream("none", 0, 0)

\* The ids of the endpoints of a node's input and output connections: the
\* i-th SetInput brings endpoint i, the j-th AddOutput or Output endpoint
\* MaxConns + j.
InputStream(i) == i
OutputStream(j) == MaxConns + j

-----------------------------------------------------------------------------
(* Processors: proc.go *)

\* NewProcessor(mode, fn): a proc with the default frames.
NewProcessor(mode, fn) ==
  [mode |-> mode, inFrames |-> BlockFrames, outFrames |-> BlockFrames, fn |-> fn]

PassThrough == NewProcessor(MonoMode, "PassThrough")
ToMono == NewProcessor(FullMode, "ToMono")

-----------------------------------------------------------------------------
(* Nodes: io.go *)

\* New(iForm, oForm, proc), with the position of Run's goroutine:
\* run is idle | running | returned | panicked, pc its place in process(),
\* idx the loop index, result the value Run returned, cycErr the value the
\* last call of process() returned, runs the number of calls of Run, began
\* whether the current Run has entered process(), panicking whether a panic
\* is unwinding Run, ret the value the last wiring call returned.  iFrames
\* and oFrames are iBlock.Frames and oBlock.Frames; iBlock and oBlock hold
\* the Channels field and the length of the Samples slice of the two
\* blocks; args is what the last call of proc.Process was given; mu is the
\* holder of n.mu (0: unlocked).
NoArgs ==
  [made |-> FALSE,
   dst |-> [Frames |-> 0, Channels |-> 0, Samples |-> 0],
   src |-> [Frames |-> 0, Channels |-> 0, Samples |-> 0]]

New(iC, oC, proc) ==
  [iC |-> iC, oC |-> oC, proc |-> proc,
   icCounts |-> [c \in 0..(iC - 1) |-> 0],
   ocCounts |-> [c \in 0..(oC - 1) |-> 0],
   ins |-> <<>>, outs |-> <<>>, iPkts |-> <<>>, oPkts |-> <<>>,
   doneClosed |-> FALSE,
   iFrames |-> 0, oFrames |-> 0,
   iBlock |-> [Channels |-> iC, Samples |-> 0],
   oBlock |-> [Channels |-> oC, Samples |-> 0],
   args |-> NoArgs, mu |-> 0,
   run |-> "idle", pc |-> "none", idx |-> 0, nFrms |-> -1,
   panicking |-> FALSE, began |-> FALSE,
   cycErr |-> Nil, result |-> Nil, runs |-> 0,
   ret |-> Nil]

\* Selections cs: sequences of channels of a form of nC channels, no longer
\* than the form (cmap.go: "TBD make this work for case len(cs) > v.Channels()").
Selections(nC) ==
  UNION {[1..l -> 0..(nC - 1)] : l \in 0..nC}

\* The selections of the wiring calls made before a run: none, or one channel.
RunSelections(nC) == {<<>>} \cup {<<c>> : c \in 0..(nC - 1)}

\* ckInputsUnique(cs...): the error, and the counters it leaves.  The first
\* loop returns at the first channel it meets that has a source; only when
\* it meets none does the second loop set the counters.
ckInputsUniqueNoCheck(nd, cs) ==
  LET claimed == IF Len(cs) = 0 THEN 0..(nd.iC - 1) ELSE {cs[k] : k \in 1..Len(cs)}
  IN [err |-> Nil,
      icCounts |-> [c \in 0..(nd.iC - 1) |->
                      IF c \in claimed THEN 1 ELSE nd.icCounts[c]]]

ckInputsUnique(nd, cs) ==
  LET claimed == IF Len(cs) = 0 THEN 0..(nd.iC - 1) ELSE {cs[k] : k \in 1..Len(cs)}
      taken == {c \in claimed : nd.icCounts[c] > 0}
      first == IF Len(cs) = 0
               THEN Min(taken)
               ELSE cs[Min({k \in 1..Len(cs) : cs[k] \in taken})]
  IN IF taken # {}
     THEN [err |-> ErrHasInput(first), icCounts |-> nd.icCounts]
     ELSE [err |-> Nil,
           icCounts |-> [c \in 0..(nd.iC - 1) |->
                           IF c \in claimed THEN 1 ELSE nd.icCounts[c]]]

\* SetInput(src, cs...): rateOk is src.SampleRate() == n.iForm.SampleRate().
SetInputOp(nd, src, rateOk, cs) ==
  IF ~rateOk
  THEN [err |-> ErrFrequency, nd |-> nd]
  ELSE LET ck == ckInputsUnique(nd, cs)
       IN IF ck.err # Nil
          THEN [err |-> ck.err, nd |-> nd]
          ELSE [err |-> Nil,
                nd |-> [nd EXCEPT
                          !.icCounts = ck.icCounts,
                          !.ins = Append(@, newConn),
                          !.iPkts = Append(@, packetInit(nd.iC, cs, src, 0))]]

\* The counters after AddOutput's loops (io.go 164-172).
addOutputCounts(nd, cs) ==
  [c \in 0..(nd.oC - 1) |->
     IF Len(cs) = 0
     THEN nd.ocCounts[c] + 1
     ELSE nd.ocCounts[c] + Cardinality({k \in 1..Len(cs) : cs[k] = c})]

\* AddOutput(d, cs...): dCh is d.Channels().
AddOutputOp(nd, snk, rateOk, dCh, cs) ==
  IF ~rateOk THEN [err |-> ErrFrequency, nd |-> nd]
  ELSE IF Len(cs) = 0 /\ dCh # nd.oC THEN [err |-> ErrChannels, nd |-> nd]
  ELSE IF Len(cs) # 0 /\ dCh # Len(cs) THEN [err |-> ErrChannels, nd |-> nd]
  ELSE [err |-> Nil,
        nd |-> [nd EXCEPT
                  !.ocCounts = addOutputCounts(nd, cs),
                  !.outs = Append(@, newConn),
                  !.oPkts = Append(@, packetInit(nd.oC, cs, 0, snk))]]

\* The counters after Output's loops (io.go 131-140): both branches of the
\* if increment every counter.
outputCounts(nd, cs) ==
  [c \in 0..(nd.oC - 1) |-> nd.ocCounts[c] + 1]

\* Output(cs...): pipe is the sound.Pipe(ov); the packet holds both its ends.
OutputOp(nd, pipe, cs) ==
  [nd EXCEPT
     !.ocCounts = outputCounts(nd, cs),
     !.outs = Append(@, newConn),
     !.oPkts = Append(@, packetInit(nd.oC, cs, pipe, pipe))]

\* The channel count ov.Channels() of the pipe Output(cs...) makes.
outputChannels(nd, cs) == IF Len(cs) # 0 THEN Len(cs) ELSE nd.oC

\* checkConns(): the first unclaimed input channel, else the first unclaimed
\* output channel, else nil.
checkConnsInputsOnly(nd) ==
  LET ui == {c \in 0..(nd.iC - 1) : nd.icCounts[c] = 0}
  IN IF ui # {} THEN dce(TRUE, Min(ui)) ELSE Nil

checkConns(nd) ==
  LET ui == {c \in 0..(nd.iC - 1) : nd.icCounts[c] = 0}
      uo == {c \in 0..(nd.oC - 1) : nd.ocCounts[c] = 0}
  IN IF ui # {} THEN dce(TRUE, Min(ui))
     ELSE IF uo # {} THEN dce(FALSE, Min(uo))
     ELSE Nil

-----------------------------------------------------------------------------
(* External endpoints: the outcomes of one blocking call.  An outcome is    *)
(* the frame count, the error and the endpoint's state after the call; the  *)
(* empty set of outcomes is a call that stays blocked.                      *)

Smaller(a, b) == IF a < b THEN a ELSE b

Outcome(n, err, st) == [n |-> n, err |-> err, st |-> st]

\* Source.Receive(d) with room for want frames.  A source returns a non-nil
\* error if and only if it returns 0 frames.
ReceiveOutcomes(st, want) ==
  IF st.rcl > 0
  THEN {Outcome(0, ErrClosed, st)}
  ELSE IF st.kind = "source"
  THEN {Outcome(k, Nil, st) : k \in 1..want}
         \cup {Outcome(0, EOF, st), Outcome(0, ErrStream, st)}
  ELSE IF st.kind = "limit"
  THEN IF st.rem = 0
       THEN {Outcome(0, EOF, st)}
       ELSE {Outcome(k, Nil, [st EXCEPT !.rem = @ - k]) :
               k \in 1..Smaller(want, st.rem)}
  ELSE IF st.kind = "pipe"
  THEN IF st.buf # <<>>
       THEN LET k == Smaller(want, Head(st.buf))
            IN {Outcome(k, Nil,
                  [st EXCEPT !.buf = IF k = Head(st.buf)
                                     THEN Tail(st.buf)
                                     ELSE <<Head(st.buf) - k>> \o Tail(st.buf)])}
       ELSE IF st.wcl > 0 THEN {Outcome(0, EOF, st)} ELSE {}
  ELSE {}

\* Sink.Send(d) of frames frames.
SendOutcomes(st, frames) ==
  IF st.wcl > 0
  THEN {Outcome(0, ErrClosed, st)}
  ELSE IF st.kind = "sink"
  THEN {Outcome(0, Nil, st), Outcome(0, ErrStream, st)}
  ELSE IF st.kind = "pipe"
  THEN IF st.rcl > 0
       THEN {Outcome(0, ErrClosed, st)}
       ELSE IF st.buf = <<>>
       THEN {Outcome(0, Nil, [st EXCEPT !.buf = <<frames>>])}
       ELSE {}
  ELSE {}

\* No Graph has been made.
NoGraph == [nodes |-> <<>>, pc |-> "none", i |-> 0, n |-> 0, wg |-> 0,
            closed |-> FALSE, gos |-> <<>>, waiter |-> "none",
            got |-> <<>>, ranging |-> FALSE]

\* No packet test is being made.
NoTest == [pc |-> "none"]

-----------------------------------------------------------------------------
(* The steps of one node *)

\* A panic ends the process: nothing runs after it.
NoPanic == \A n \in DOMAIN node : node[n].run # "panicked"

\* Wiring calls are made before Run, or after Run returned a connectivity
\* error ("re-wire and retry").
Wirable(nd) ==
  \/ nd.run = "idle"
  \/ nd.run = "returned" /\ nd.result.kind = "Disconnected"

\* n.SetInput(src, cs...) with a new external source src.
SetInput(n, rateOk, cs) ==
  LET sid == InputStream(Len(node[n].ins) + 1)
      r == SetInputOp(node[n], sid, rateOk, cs)
  IN /\ NoPanic
     /\ Wirable(node[n])
     /\ Len(node[n].ins) < MaxConns
     /\ node' = [node EXCEPT ![n] = [r.nd EXCEPT !.ret = r.err]]
     /\ streams' = IF r.err = Nil
                   THEN [streams EXCEPT ![sid] =
                           Stream("source", r.nd.iPkts[Len(r.nd.iPkts)].nC, 0)]
                   ELSE streams
     /\ UNCHANGED <<consumer, callers, graph, test>>

\* n.SetInput(src, cs...) with a new external source src of sCh channels:
\* SetInput reads src.SampleRate() and never src.Channels().
SetInputSource(n, rateOk, sCh, cs) ==
  LET sid == InputStream(Len(node[n].ins) + 1)
      r == SetInputOp(node[n], sid, rateOk, cs)
  IN /\ NoPanic
     /\ Wirable(node[n])
     /\ Len(node[n].ins) < MaxConns
     /\ node' = [node EXCEPT ![n] = [r.nd EXCEPT !.ret = r.err]]
     /\ streams' = IF r.err = Nil
                   THEN [streams EXCEPT ![sid] = Stream("source", sCh, 0)]
                   ELSE streams
     /\ UNCHANGED <<consumer, callers, graph, test>>

\* n.AddOutput(d, cs...) with a new external sink d of dCh channels.
AddOutput(n, rateOk, dCh, cs) ==
  LET sid == OutputStream(Len(node[n].outs) + 1)
      r == AddOutputOp(node[n], sid, rateOk, dCh, cs)
  IN /\ NoPanic
     /\ Wirable(node[n])
     /\ Len(node[n].outs) < MaxConns
     /\ node' = [node EXCEPT ![n] = [r.nd EXCEPT !.ret = r.err]]
     /\ streams' = IF r.err = Nil
                   THEN [streams EXCEPT ![sid] = Stream("sink", dCh, 0)]
                   ELSE streams
     /\ UNCHANGED <<consumer, callers, graph, test>>

\* n.Output(cs...): the caller keeps the source end of the new pipe.
Output(n, cs) ==
  LET sid == OutputStream(Len(node[n].outs) + 1)
  IN /\ NoPanic
     /\ Wirable(node[n])
     /\ Len(node[n].outs) < MaxConns
     /\ node' = [node EXCEPT ![n] = [OutputOp(node[n], sid, cs) EXCEPT !.ret = Nil]]
     /\ streams' = [streams EXCEPT ![sid] =
                     Stream("pipe", outputChannels(node[n], cs), 0)]
     /\ UNCHANGED <<consumer, callers, graph, test>>

\* The mutation of serve() that starts no goroutine for the last connection.
serveAllButLast(conns) ==
  [w \in 1..Len(conns) |->
     [st |-> IF w = Len(conns) THEN "new" ELSE "select", pkt |-> 0]]

\* serve(): one goroutine per connection, each waiting in its select.
serve(conns) == [w \in 1..Len(conns) |-> [st |-> "select", pkt |-> 0]]

\* Run(), up to the first call of process(): the deferred function is
\* registered, then checkConns() either ends Run or the workers are started.
RunCalled(nd) ==
  LET e == checkConns(nd)
  IN IF e # Nil
     THEN [nd EXCEPT !.run = "running", !.runs = @ + 1,
                     !.began = FALSE, !.cycErr = Nil,
                     !.result = e, !.pc = "defer"]
     ELSE [nd EXCEPT !.run = "running", !.runs = @ + 1,
                     !.began = FALSE, !.cycErr = Nil,
                     !.result = Nil, !.pc = "top",
                     !.ins = serve(nd.ins),
                     !.outs = serve(nd.outs)]

RunBody(n) ==
  /\ node' = [node EXCEPT ![n] = RunCalled(node[n])]
  /\ UNCHANGED <<streams, consumer, callers, graph, test>>

\* The first call of Run on a node.
RunStart(n) ==
  /\ NoPanic
  /\ node[n].run = "idle"
  /\ RunBody(n)

\* n.mu.Lock() returns when no goroutine holds the mutex.
LockFree(nd) == TRUE

Lock(nd) == nd.mu = 0

\* Run called again after it returned a connectivity error.
RunRetry(n) ==
  /\ NoPanic
  /\ node[n].run = "returned" /\ node[n].result.kind = "Disconnected"
  /\ RunBody(n)

\* Run's loop on the value err that process() returned (io.go 220-228).
RunResultKeepsEOF(err) == err

RunResult(err) == IF err = EOF THEN Nil ELSE err

\* process() returns err to Run's loop.
EndProcessGoesOn(nd, err) ==
  [nd EXCEPT !.cycErr = Nil, !.pc = "top", !.idx = 0, !.mu = 0]

\* The deferred n.mu.Unlock() of io.go 233 runs on every return.
EndProcess(nd, err) ==
  IF err = Nil
  THEN [nd EXCEPT !.cycErr = Nil, !.pc = "top", !.idx = 0, !.mu = 0]
  ELSE [nd EXCEPT !.cycErr = err, !.result = RunResult(err), !.pc = "defer",
                  !.idx = 0, !.mu = 0]

\* process(), io.go 232-244: NextFrames() and the growth of the two blocks.
ProcessTopToProc(n) ==
  LET nd == node[n]
  IN /\ NoPanic
     /\ nd.run = "running" /\ nd.pc = "top"
     /\ Lock(nd)
     /\ node' = [node EXCEPT ![n] =
                   [nd EXCEPT !.began = TRUE, !.mu = -1,
                              !.iFrames = nd.proc.inFrames,
                              !.oFrames = nd.proc.outFrames,
                              !.pc = "proc", !.idx = 0]]
     /\ UNCHANGED <<streams, consumer, callers, graph, test>>

ProcessTop(n) ==
  LET nd == node[n]
  IN /\ NoPanic
     /\ nd.run = "running" /\ nd.pc = "top"
     /\ Lock(nd)
     /\ node' = [node EXCEPT ![n] =
                   [nd EXCEPT !.began = TRUE, !.mu = -1,
                              !.iFrames = nd.proc.inFrames,
                              !.oFrames = nd.proc.outFrames,
                              !.iBlock.Samples = nd.iC * nd.proc.inFrames,
                              !.oBlock.Samples = nd.oC * nd.proc.outFrames,
                              !.nFrms = -1,
                              !.pc = "sendIn", !.idx = 1]]
     /\ UNCHANGED <<streams, consumer, callers, graph, test>>

\* io.go 247-253, one iteration: the packet is prepared and handed on inC to
\* a worker w waiting in its select.
SendIn(n, w) ==
  LET nd == node[n]
      i == nd.idx
  IN /\ NoPanic
     /\ nd.run = "running" /\ nd.pc = "sendIn"
     /\ w \in 1..Len(nd.ins) /\ nd.ins[w].st = "select"
     /\ node' = [node EXCEPT ![n] =
                   [nd EXCEPT
                      !.iPkts[i] = [@ EXCEPT !.err = Nil, !.n = nd.iFrames,
                                             !.len = nd.iPkts[i].nC * nd.iFrames,
                                             !.resp = FALSE, !.coll = FALSE,
                                             !.io = 0],
                      !.ins[w] = [st |-> "io", pkt |-> i],
                      !.pc = IF i = Len(nd.ins) THEN "recvIn" ELSE "sendIn",
                      !.idx = IF i = Len(nd.ins) THEN 1 ELSE i + 1]]
     /\ UNCHANGED <<streams, consumer, callers, graph, test>>

\* The frame count a check of the cycle's inputs accepts for a packet that
\* reports m frames when the earlier ones reported nFrms (io.go 264-269).
sameFramesAlways(nFrms, m) == TRUE

sameFrames(nFrms, m) == nFrms = -1 \/ m = nFrms

\* io.go 257-271, one iteration: a worker w hands its packet back on prC.
RecvIn(n, w) ==
  LET nd == node[n]
      p == nd.ins[w].pkt
      pkt == nd.iPkts[p]
      m == pkt.n
      got == [nd EXCEPT !.ins[w] = [st |-> "select", pkt |-> 0],
                        !.iPkts[p].coll = TRUE]
  IN /\ NoPanic
     /\ nd.run = "running" /\ nd.pc = "recvIn"
     /\ w \in 1..Len(nd.ins) /\ nd.ins[w].st = "deliver"
     /\ node' = [node EXCEPT ![n] =
                   IF pkt.err # Nil
                   THEN EndProcess(got, pkt.err)
                   ELSE IF ~sameFrames(nd.nFrms, m)
                   THEN [got EXCEPT !.panicking = TRUE, !.pc = "defer", !.idx = 0,
                                 !.mu = 0]
                   ELSE IF nd.idx = Len(nd.ins)
                   THEN [got EXCEPT !.nFrms = IF @ = -1 THEN m ELSE @,
                                    !.iFrames = IF nd.nFrms = -1 THEN m ELSE nd.nFrms,
                                    !.pc = "proc", !.idx = 0]
                   ELSE [got EXCEPT !.nFrms = IF @ = -1 THEN m ELSE @,
                                    !.idx = @ + 1]]
     /\ UNCHANGED <<streams, consumer, callers, graph, test>>

\* The processing functions of proc.go: the error returned and dst.Frames
\* after the call.  PassThrough copies src.Frames frames and sets dst.Frames;
\* ToMono refuses a dst of more than one channel.
PassThroughKeepsFrames(fn, dst, src) ==
  [err |-> Nil, Frames |-> dst.Frames]

Process(fn, dst, src) ==
  IF fn = "PassThrough"
  THEN [err |-> Nil, Frames |-> src.Frames]
  ELSE IF dst.Channels # 1
  THEN [err |-> ErrProc, Frames |-> dst.Frames]
  ELSE [err |-> Nil, Frames |-> src.Frames]

\* io.go 274-306: one call of proc.Process.  In MonoMode idx is the channel
\* of the call: the Samples slices of the two blocks are cut to nFrms
\* samples for the call and restored after the last one, and the Channels
\* fields are saved and restored but never assigned in between.
ProcCall(n) ==
  LET nd == node[n]
      mono == nd.proc.mode = MonoMode
      dst == [Frames |-> nd.oFrames, Channels |-> nd.oBlock.Channels,
              Samples |-> IF mono THEN nd.nFrms ELSE nd.oBlock.Samples]
      src == [Frames |-> nd.iFrames, Channels |-> nd.iBlock.Channels,
              Samples |-> IF mono THEN nd.nFrms ELSE nd.iBlock.Samples]
      r == Process(nd.proc.fn, dst, src)
      last == nd.proc.mode = FullMode \/ nd.idx + 1 = nd.iC
      called == [nd EXCEPT !.args = [made |-> TRUE, dst |-> dst, src |-> src],
                           !.iBlock.Samples = IF last THEN nd.iC * nd.proc.inFrames
                                              ELSE src.Samples,
                           !.oBlock.Samples = IF last THEN nd.oC * nd.proc.outFrames
                                              ELSE dst.Samples]
  IN /\ NoPanic
     /\ nd.run = "running" /\ nd.pc = "proc"
     /\ node' = [node EXCEPT ![n] =
                   IF r.err # Nil
                   THEN EndProcess([called EXCEPT !.iBlock.Samples = src.Samples,
                                                  !.oBlock.Samples = dst.Samples],
                                   r.err)
                   ELSE IF last
                   THEN [called EXCEPT !.oFrames = r.Frames, !.pc = "sendOut", !.idx = 1]
                   ELSE [called EXCEPT !.oFrames = r.Frames, !.idx = @ + 1]]
     /\ UNCHANGED <<streams, consumer, callers, graph, test>>

\* io.go 308-312, one iteration: pkt.get(oBlock) sizes the packet to
\* oBlock.Frames frames, then it is handed on oC to a waiting worker w.
SendOut(n, w) ==
  LET nd == node[n]
      i == nd.idx
  IN /\ NoPanic
     /\ nd.run = "running" /\ nd.pc = "sendOut"
     /\ w \in 1..Len(nd.outs) /\ nd.outs[w].st = "select"
     /\ node' = [node EXCEPT ![n] =
                   [nd EXCEPT
                      !.oPkts[i] = [@ EXCEPT !.n = nd.oFrames,
                                             !.len = nd.oPkts[i].nC * nd.oFrames,
                                             !.resp = FALSE, !.coll = FALSE,
                                             !.io = 0],
                      !.outs[w] = [st |-> "io", pkt |-> i],
                      !.pc = IF i = Len(nd.oPkts) THEN "recvOut" ELSE "sendOut",
                      !.idx = IF i = Len(nd.oPkts) THEN 1 ELSE i + 1]]
     /\ UNCHANGED <<streams, consumer, callers, graph, test>>

\* io.go 314-321, one iteration: a worker w hands its packet back on odC.
RecvOut(n, w) ==
  LET nd == node[n]
      p == nd.outs[w].pkt
      pkt == nd.oPkts[p]
      got == [nd EXCEPT !.outs[w] = [st |-> "select", pkt |-> 0],
                        !.oPkts[p].coll = TRUE]
  IN /\ NoPanic
     /\ nd.run = "running" /\ nd.pc = "recvOut"
     /\ w \in 1..Len(nd.outs) /\ nd.outs[w].st = "deliver"
     /\ node' = [node EXCEPT ![n] =
                   IF pkt.err # Nil
                   THEN EndProcess(got, pkt.err)
                   ELSE IF nd.idx = Len(nd.oPkts)
                   THEN EndProcess(got, Nil)
                   ELSE [got EXCEPT !.idx = @ + 1]]
     /\ UNCHANGED <<streams, consumer, callers, graph, test>>

\* The endpoints after Run's deferred function has called Close on the sink
\* of every output packet and on the source of every input packet.
CloseAllSinksOnly(nd, ss) ==
  [s \in DOMAIN ss |->
     [ss[s] EXCEPT
        !.wcl = @ + Cardinality({i \in 1..Len(nd.oPkts) : nd.oPkts[i].snk = s})]]

CloseAll(nd, ss) ==
  [s \in DOMAIN ss |->
     [ss[s] EXCEPT
        !.wcl = @ + Cardinality({i \in 1..Len(nd.oPkts) : nd.oPkts[i].snk = s}),
        !.rcl = @ + Cardinality({i \in 1..Len(nd.iPkts) : nd.iPkts[i].src = s})]]

\* Run's deferred function (io.go 206-214), on a return and on a panic:
\* close(n.doneC), which panics on a closed channel, then the Close calls.
RunDeferNoCancel(n) ==
  LET nd == node[n]
  IN /\ NoPanic
     /\ nd.run = "running" /\ nd.pc = "defer"
     /\ node' = [node EXCEPT ![n] =
                   [nd EXCEPT !.pc = "none",
                              !.run = IF nd.panicking THEN "panicked"
                                      ELSE "returned"]]
     /\ streams' = CloseAll(nd, streams)
     /\ UNCHANGED <<consumer, callers, graph, test>>

RunDeferCloseOnce(n) ==
  LET nd == node[n]
  IN /\ NoPanic
     /\ nd.run = "running" /\ nd.pc = "defer"
     /\ node' = [node EXCEPT ![n] =
                   [nd EXCEPT !.doneClosed = TRUE, !.pc = "none",
                              !.run = IF nd.panicking THEN "panicked"
                                      ELSE "returned"]]
     /\ streams' = IF nd.doneClosed THEN streams ELSE CloseAll(nd, streams)
     /\ UNCHANGED <<consumer, callers, graph, test>>

RunDefer(n) ==
  LET nd == node[n]
  IN /\ NoPanic
     /\ nd.run = "running" /\ nd.pc = "defer"
     /\ node' = [node EXCEPT ![n] =
                   IF nd.doneClosed
                   THEN [nd EXCEPT !.run = "panicked", !.pc = "none"]
                   ELSE [nd EXCEPT !.doneClosed = TRUE, !.pc = "none",
                                   !.run = IF nd.panicking THEN "panicked"
                                           ELSE "returned"]]
     /\ streams' = IF nd.doneClosed THEN streams ELSE CloseAll(nd, streams)
     /\ UNCHANGED <<consumer, callers, graph, test>>

-----------------------------------------------------------------------------
(* The steps of a connection's worker: conn.serve *)

Conns(nd, dir) == IF dir = "in" THEN nd.ins ELSE nd.outs
Pkts(nd, dir) == IF dir = "in" THEN nd.iPkts ELSE nd.oPkts

\* The endpoint of the external call a worker w makes for the packet p it
\* received: the packet's own src or snk (conn.serve 31-35).
EndpointOfWorker(nd, dir, w, p) ==
  IF dir = "in" THEN nd.iPkts[w].src ELSE nd.oPkts[w].snk

Endpoint(nd, dir, w, p) ==
  IF Pkts(nd, dir)[p].snk = 0 THEN Pkts(nd, dir)[p].src ELSE Pkts(nd, dir)[p].snk

\* The node with worker w of direction dir and its packet p replaced by conn
\* and pkt.
WithWorkerStays(nd, dir, w, conn, p, pkt) ==
  IF dir = "in"
  THEN [nd EXCEPT !.iPkts[p] = pkt]
  ELSE [nd EXCEPT !.oPkts[p] = pkt]

WithWorker(nd, dir, w, conn, p, pkt) ==
  IF dir = "in"
  THEN [nd EXCEPT !.ins[w] = conn, !.iPkts[p] = pkt]
  ELSE [nd EXCEPT !.outs[w] = conn, !.oPkts[p] = pkt]

\* conn.serve 31-37: the one external call for the packet received, Receive
\* when the packet has no sink and Send otherwise, and the outcome stored in
\* the packet.  m is the worker's variable m: a worker of output packets
\* never assigns it.
WorkerIO(n, dir, w) ==
  LET nd == node[n]
      conn == Conns(nd, dir)[w]
      p == conn.pkt
      pkt == Pkts(nd, dir)[p]
      e == Endpoint(nd, dir, w, p)
      outs == IF pkt.snk = 0
              THEN ReceiveOutcomes(streams[e], pkt.len \div streams[e].ch)
              ELSE SendOutcomes(streams[e], pkt.len \div streams[e].ch)
  IN /\ NoPanic
     /\ w \in 1..Len(Conns(nd, dir)) /\ conn.st = "io"
     /\ \E o \in outs :
          /\ node' = [node EXCEPT ![n] =
                        WithWorker(nd, dir, w, [st |-> "deliver", pkt |-> p], p,
                                   [pkt EXCEPT !.n = o.n, !.err = o.err,
                                               !.resp = TRUE, !.io = e])]
          /\ streams' = [streams EXCEPT ![e] = o.st]
     /\ UNCHANGED <<consumer, callers, graph, test>>

\* conn.serve 28-29 and 40-41: a worker waiting in one of its two selects
\* takes the closed doneC and returns.
WorkerDoneIdleOnly(n, dir, w) ==
  LET nd == node[n]
      conn == Conns(nd, dir)[w]
  IN /\ NoPanic
     /\ w \in 1..Len(Conns(nd, dir))
     /\ conn.st = "select"
     /\ nd.doneClosed
     /\ node' = [node EXCEPT ![n] =
                   IF dir = "in"
                   THEN [nd EXCEPT !.ins[w] = [st |-> "exit", pkt |-> 0]]
                   ELSE [nd EXCEPT !.outs[w] = [st |-> "exit", pkt |-> 0]]]
     /\ UNCHANGED <<streams, consumer, callers, graph, test>>

WorkerDone(n, dir, w) ==
  LET nd == node[n]
      conn == Conns(nd, dir)[w]
  IN /\ NoPanic
     /\ w \in 1..Len(Conns(nd, dir))
     /\ conn.st \in {"select", "deliver"}
     /\ nd.doneClosed
     /\ node' = [node EXCEPT ![n] =
                   IF dir = "in"
                   THEN [nd EXCEPT !.ins[w] = [st |-> "exit", pkt |-> 0]]
                   ELSE [nd EXCEPT !.outs[w] = [st |-> "exit", pkt |-> 0]]]
     /\ UNCHANGED <<streams, consumer, callers, graph, test>>

-----------------------------------------------------------------------------
(* The callers *)

\* The source end of pipe s is held by a caller, not by a node.
CallerReads(s) ==
  /\ streams[s].kind = "pipe"
  /\ \A n \in DOMAIN node :
       \A i \in 1..Len(node[n].iPkts) : node[n].iPkts[i].src # s

\* TestIOMonoChain's loop: n, err := out.Receive(buf); ttl += n; the loop
\* ends at io.EOF.
ConsumerReceive(s) ==
  /\ NoPanic
  /\ s \in DOMAIN streams /\ CallerReads(s)
  /\ ~consumer.eof
  /\ \E o \in ReceiveOutcomes(streams[s], BlockFrames) :
       /\ streams' = [streams EXCEPT ![s] = o.st]
       /\ consumer' = [consumer EXCEPT !.ttl = @ + o.n, !.eof = o.err = EOF]
  /\ UNCHANGED <<node, callers, graph, test>>

-----------------------------------------------------------------------------
(* Wiring calls made concurrently: each caller is a goroutine inside one    *)
(* wiring method of node 1, between n.mu.Lock() and the deferred Unlock().  *)

\* The calls: SetInput(src, cs...), AddOutput(d, cs...) and Output(cs...).
CallSetInput(rateOk, cs) ==
  [kind |-> "SetInput", rateOk |-> rateOk, dCh |-> 0, cs |-> cs]
CallAddOutput(rateOk, dCh, cs) ==
  [kind |-> "AddOutput", rateOk |-> rateOk, dCh |-> dCh, cs |-> cs]
CallOutput(cs) ==
  [kind |-> "Output", rateOk |-> TRUE, dCh |-> 0, cs |-> cs]

\* A caller that has not yet entered its call.
Caller(call) == [call |-> call, pc |-> "start", err |-> Nil, ret |-> Nil]

\* The endpoint a call brings or makes, given the lists it appends to.
CallStream(nd, call) ==
  IF call.kind = "SetInput" THEN InputStream(Len(nd.ins) + 1)
  ELSE OutputStream(Len(nd.outs) + 1)

\* The whole call on nd, as one caller alone makes it.
ApplyCall(nd, call) ==
  IF call.kind = "SetInput"
  THEN SetInputOp(nd, CallStream(nd, call), call.rateOk, call.cs)
  ELSE IF call.kind = "AddOutput"
  THEN AddOutputOp(nd, CallStream(nd, call), call.rateOk, call.dCh, call.cs)
  ELSE [err |-> Nil, nd |-> OutputOp(nd, CallStream(nd, call), call.cs)]

\* The first statement of SetInput, AddOutput and Output.
CallLock(c) ==
  /\ NoPanic
  /\ c \in DOMAIN callers /\ callers[c].pc = "start"
  /\ Wirable(node[1])
  /\ Lock(node[1])
  /\ node' = [node EXCEPT ![1].mu = c]
  /\ callers' = [callers EXCEPT ![c].pc = "check"]
  /\ UNCHANGED <<streams, consumer, graph, test>>

\* The checks of the call: the sample rate and channel count comparisons
\* and the reading loop of ckInputsUnique (io.go 155-163, 188-190, 335-346).
CallCheck(c) ==
  /\ NoPanic
  /\ c \in DOMAIN callers /\ callers[c].pc = "check"
  /\ callers' = [callers EXCEPT
                   ![c].err = ApplyCall(node[1], callers[c].call).err,
                   ![c].pc = "register"]
  /\ UNCHANGED <<node, streams, consumer, graph, test>>

\* The writes of a call whose checks passed: the counters, then the new
\* connection and packet (io.go 141-148, 164-180, 341-352 and 194-200).
CallWrites(nd, call) ==
  LET sid == CallStream(nd, call)
  IN IF call.kind = "SetInput"
     THEN [nd EXCEPT
             !.icCounts = [ch \in 0..(nd.iC - 1) |->
                             IF Len(call.cs) = 0
                                \/ \E k \in 1..Len(call.cs) : call.cs[k] = ch
                             THEN 1 ELSE nd.icCounts[ch]],
             !.ins = Append(@, newConn),
             !.iPkts = Append(@, packetInit(nd.iC, call.cs, sid, 0))]
     ELSE IF call.kind = "AddOutput"
     THEN [nd EXCEPT
             !.ocCounts = addOutputCounts(nd, call.cs),
             !.outs = Append(@, newConn),
             !.oPkts = Append(@, packetInit(nd.oC, call.cs, 0, sid))]
     ELSE OutputOp(nd, sid, call.cs)

\* The endpoint that comes with the call.
CallEndpoint(nd, call) ==
  IF call.kind = "SetInput"
  THEN Stream("source", IF Len(call.cs) = 0 THEN nd.iC ELSE Len(call.cs), 0)
  ELSE IF call.kind = "AddOutput"
  THEN Stream("sink", call.dCh, 0)
  ELSE Stream("pipe", outputChannels(nd, call.cs), 0)

\* The rest of the call: a failed check returns its error, a passed check
\* is followed by the writes.
CallRegister(c) ==
  LET cl == callers[c]
      sid == CallStream(node[1], cl.call)
  IN /\ NoPanic
     /\ c \in DOMAIN callers /\ cl.pc = "register"
     /\ sid \in DOMAIN streams
     /\ node' = [node EXCEPT ![1] =
                   IF cl.err # Nil THEN @ ELSE CallWrites(@, cl.call)]
     /\ streams' = IF cl.err # Nil THEN streams
                   ELSE [streams EXCEPT ![sid] = CallEndpoint(node[1], cl.call)]
     /\ callers' = [callers EXCEPT ![c].pc = "unlock"]
     /\ UNCHANGED <<consumer, graph, test>>

\* The deferred n.mu.Unlock() and the return of the call.
CallUnlock(c) ==
  /\ NoPanic
  /\ c \in DOMAIN callers /\ callers[c].pc = "unlock"
  /\ node' = [node EXCEPT ![1].mu = 0, ![1].ret = callers[c].err]
  /\ callers' = [callers EXCEPT ![c].pc = "done", ![c].ret = callers[c].err]
  /\ UNCHANGED <<streams, consumer, graph, test>>

\* The calls the callers make on a node of iC input and oC output channels.
Calls(iC, oC) ==
  {CallSetInput(r, cs) : r \in BOOLEAN, cs \in RunSelections(iC)}
    \cup {CallAddOutput(TRUE, oC, <<>>), CallAddOutput(TRUE, 1, <<0>>),
          CallAddOutput(TRUE, 1, <<>>)}
    \cup {CallOutput(cs) : cs \in RunSelections(oC)}

\* MaxCallers goroutines, each about to make one call on a new stereo node.
InitCallers ==
  /\ node = <<New(StereoChannels, StereoChannels, PassThrough)>>
  /\ streams = [s \in 1..(MaxConns + MaxCallers) |-> NoStream]
  /\ consumer = [ttl |-> 0, eof |-> FALSE, F |-> 0]
  /\ callers \in [1..MaxCallers ->
                    {Caller(call) : call \in Calls(StereoChannels, StereoChannels)}]
  /\ graph = NoGraph
  /\ test = NoTest

NextCallers ==
  \/ \E c \in DOMAIN callers : CallLock(c)
  \/ \E c \in DOMAIN callers : CallCheck(c)
  \/ \E c \in DOMAIN callers : CallRegister(c)
  \/ \E c \in DOMAIN callers : CallUnlock(c)

SpecCallers == InitCallers /\ [][NextCallers]_vars

-----------------------------------------------------------------------------
(* One node with external endpoints: wiring, then Run *)

\* The nodes the model builds: New(stereo, stereo, PassThrough) and
\* New(stereo, stereo, ToMono), whose processor returns an error.
Fixtures ==
  {New(StereoChannels, StereoChannels, PassThrough),
   New(StereoChannels, StereoChannels, ToMono)}

Init ==
  /\ \E nd \in Fixtures : node = <<nd>>
  /\ streams = [s \in 1..(2 * MaxConns) |-> NoStream]
  /\ consumer = [ttl |-> 0, eof |-> FALSE, F |-> 0]
  /\ callers = <<>>
  /\ graph = NoGraph
  /\ test = NoTest

Next ==
  \/ \E n \in DOMAIN node : \E cs \in RunSelections(node[n].iC) :
       SetInput(n, TRUE, cs)
  \/ \E n \in DOMAIN node : AddOutput(n, TRUE, node[n].oC, <<>>)
  \/ \E n \in DOMAIN node : RunStart(n)
  \/ \E n \in DOMAIN node : ProcessTop(n)
  \/ \E n \in DOMAIN node : \E w \in 1..MaxConns : SendIn(n, w)
  \/ \E n \in DOMAIN node : \E w \in 1..MaxConns : RecvIn(n, w)
  \/ \E n \in DOMAIN node : ProcCall(n)
  \/ \E n \in DOMAIN node : \E w \in 1..MaxConns : SendOut(n, w)
  \/ \E n \in DOMAIN node : \E w \in 1..MaxConns : RecvOut(n, w)
  \/ \E n \in DOMAIN node : RunDefer(n)
  \/ \E n \in DOMAIN node : \E dir \in {"in", "out"} :
       \E w \in 1..MaxConns : WorkerIO(n, dir, w)
  \/ \E n \in DOMAIN node : \E dir \in {"in", "out"} :
       \E w \in 1..MaxConns : WorkerDone(n, dir, w)

Spec == Init /\ [][Next]_vars

\* A worker that can take a step eventually takes one.
WorkerStep ==
  \E n \in DOMAIN node : \E dir \in {"in", "out"} : \E w \in 1..MaxConns :
    WorkerIO(n, dir, w) \/ WorkerDone(n, dir, w)

FairSpec == Spec /\ WF_vars(WorkerStep)

\* A send of the Run goroutine on n.iC or n.oC for which a worker waits in
\* its select eventually happens.
SendStep ==
  \E n \in DOMAIN node : \E w \in 1..MaxConns : SendIn(n, w) \/ SendOut(n, w)

FairSpecSend == Spec /\ WF_vars(SendStep)

-----------------------------------------------------------------------------
(* The configuration phase of one node: every wiring call, and Run up to    *)
(* the return of its connectivity check.                                    *)

\* At most MaxConns connections in all are registered in this phase.
Budget(n) == Len(node[n].ins) + Len(node[n].outs) < MaxConns

NextWiring ==
  \/ \E n \in DOMAIN node : \E rateOk \in BOOLEAN :
       \E cs \in Selections(node[n].iC) : Budget(n) /\ SetInput(n, rateOk, cs)
  \/ \E n \in DOMAIN node : \E rateOk \in BOOLEAN : \E dCh \in 1..node[n].oC :
       \E cs \in Selections(node[n].oC) :
         Budget(n) /\ AddOutput(n, rateOk, dCh, cs)
  \/ \E n \in DOMAIN node : \E cs \in Selections(node[n].oC) :
       Budget(n) /\ Output(n, cs)
  \/ \E n \in DOMAIN node : RunStart(n)
  \/ \E n \in DOMAIN node : RunDefer(n)

SpecWiring == Init /\ [][NextWiring]_vars

\* The configuration of the input side with sources of any channel count.
NextSources ==
  \/ \E n \in DOMAIN node : \E rateOk \in BOOLEAN :
       \E sCh \in 1..node[n].iC : \E cs \in Selections(node[n].iC) :
         SetInputSource(n, rateOk, sCh, cs)
  \/ \E n \in DOMAIN node : AddOutput(n, TRUE, node[n].oC, <<>>)
  \/ \E n \in DOMAIN node : RunStart(n)
  \/ \E n \in DOMAIN node : RunDefer(n)

SpecSources == Init /\ [][NextSources]_vars

\* Run called again after it returned a connectivity error: the retry.  The
\* wiring calls connect all channels of the node at once.
NextRetry ==
  \/ \E n \in DOMAIN node : SetInput(n, TRUE, <<>>)
  \/ \E n \in DOMAIN node : AddOutput(n, TRUE, node[n].oC, <<>>)
  \/ \E n \in DOMAIN node : RunStart(n)
  \/ \E n \in DOMAIN node : RunRetry(n)
  \/ \E n \in DOMAIN node : ProcessTop(n)
  \/ \E n \in DOMAIN node : \E w \in 1..MaxConns : SendIn(n, w)
  \/ \E n \in DOMAIN node : \E w \in 1..MaxConns : RecvIn(n, w)
  \/ \E n \in DOMAIN node : ProcCall(n)
  \/ \E n \in DOMAIN node : \E w \in 1..MaxConns : SendOut(n, w)
  \/ \E n \in DOMAIN node : \E w \in 1..MaxConns : RecvOut(n, w)
  \/ \E n \in DOMAIN node : RunDefer(n)
  \/ \E n \in DOMAIN node : \E dir \in {"in", "out"} :
       \E w \in 1..MaxConns : WorkerIO(n, dir, w)
  \/ \E n \in DOMAIN node : \E dir \in {"in", "out"} :
       \E w \in 1..MaxConns : WorkerDone(n, dir, w)

\* The retried node is a stereo pass-through node.
InitRetry ==
  /\ node = <<New(StereoChannels, StereoChannels, PassThrough)>>
  /\ streams = [s \in 1..(2 * MaxConns) |-> NoStream]
  /\ consumer = [ttl |-> 0, eof |-> FALSE, F |-> 0]
  /\ callers = <<>>
  /\ graph = NoGraph
  /\ test = NoTest

SpecRetry == InitRetry /\ [][NextRetry]_vars

-----------------------------------------------------------------------------
(* Wiring calls made while Run is running.  No wiring method looks at       *)
(* whether Run was called: each one takes n.mu, which process() holds for   *)
(* one cycle at a time and Run does not hold between two cycles, nor        *)
(* between serve() and the first cycle.                                     *)

\* n.SetInput(src, cs...) by another goroutine while Run is running.
LateSetInput(n, rateOk, cs) ==
  LET sid == InputStream(Len(node[n].ins) + 1)
      r == SetInputOp(node[n], sid, rateOk, cs)
  IN /\ NoPanic
     /\ node[n].run = "running" /\ Lock(node[n])
     /\ Len(node[n].ins) < MaxConns
     /\ node' = [node EXCEPT ![n] = [r.nd EXCEPT !.ret = r.err]]
     /\ streams' = IF r.err = Nil
                   THEN [streams EXCEPT ![sid] =
                           Stream("source", r.nd.iPkts[Len(r.nd.iPkts)].nC, 0)]
                   ELSE streams
     /\ UNCHANGED <<consumer, callers, graph, test>>

\* n.AddOutput(d, cs...) by another goroutine while Run is running.
LateAddOutput(n, rateOk, dCh, cs) ==
  LET sid == OutputStream(Len(node[n].outs) + 1)
      r == AddOutputOp(node[n], sid, rateOk, dCh, cs)
  IN /\ NoPanic
     /\ node[n].run = "running" /\ Lock(node[n])
     /\ Len(node[n].outs) < MaxConns
     /\ node' = [node EXCEPT ![n] = [r.nd EXCEPT !.ret = r.err]]
     /\ streams' = IF r.err = Nil
                   THEN [streams EXCEPT ![sid] = Stream("sink", dCh, 0)]
                   ELSE streams
     /\ UNCHANGED <<consumer, callers, graph, test>>

\* n.Output(cs...) by another goroutine while Run is running.
LateOutput(n, cs) ==
  LET sid == OutputStream(Len(node[n].outs) + 1)
  IN /\ NoPanic
     /\ node[n].run = "running" /\ Lock(node[n])
     /\ Len(node[n].outs) < MaxConns
     /\ node' = [node EXCEPT ![n] =
                   [OutputOp(node[n], sid, cs) EXCEPT !.ret = Nil]]
     /\ streams' = [streams EXCEPT ![sid] =
                     Stream("pipe", outputChannels(node[n], cs), 0)]
     /\ UNCHANGED <<consumer, callers, graph, test>>

\* A mono pass-through node with one source of F frames and one sink, on
\* which Run is called while other goroutines go on making wiring calls.
InitLate ==
  /\ \E F \in 0..MaxFrames :
       /\ node = <<AddOutputOp(
                     SetInputOp(New(MonoChannels, MonoChannels, PassThrough),
                                InputStream(1), TRUE, <<>>).nd,
                     OutputStream(1), TRUE, MonoChannels, <<>>).nd>>
       /\ streams = [s \in 1..(2 * MaxConns) |->
                       IF s = InputStream(1)
                       THEN Stream("limit", MonoChannels, F)
                       ELSE IF s = OutputStream(1)
                       THEN Stream("sink", MonoChannels, 0)
                       ELSE NoStream]
  /\ consumer = [ttl |-> 0, eof |-> FALSE, F |-> 0]
  /\ callers = <<>>
  /\ graph = NoGraph
  /\ test = NoTest

NextLate ==
  \/ \E n \in DOMAIN node : RunStart(n)
  \/ \E n \in DOMAIN node : \E rateOk \in BOOLEAN :
       LateSetInput(n, rateOk, <<>>)
  \/ \E n \in DOMAIN node : \E rateOk \in BOOLEAN :
       LateAddOutput(n, rateOk, node[n].oC, <<>>)
  \/ \E n \in DOMAIN node : LateOutput(n, <<>>)
  \/ \E n \in DOMAIN node : ProcessTop(n)
  \/ \E n \in DOMAIN node : \E w \in 1..MaxConns : SendIn(n, w)
  \/ \E n \in DOMAIN node : \E w \in 1..MaxConns : RecvIn(n, w)
  \/ \E n \in DOMAIN node : ProcCall(n)
  \/ \E n \in DOMAIN node : \E w \in 1..MaxConns : SendOut(n, w)
  \/ \E n \in DOMAIN node : \E w \in 1..MaxConns : RecvOut(n, w)
  \/ \E n \in DOMAIN node : RunDefer(n)
  \/ \E n \in DOMAIN node : \E dir \in {"in", "out"} :
       \E w \in 1..MaxConns : WorkerIO(n, dir, w)
  \/ \E n \in DOMAIN node : \E dir \in {"in", "out"} :
       \E w \in 1..MaxConns : WorkerDone(n, dir, w)

SpecLate == InitLate /\ [][NextLate]_vars

-----------------------------------------------------------------------------
(* Wiring calls whose selection names a channel out of range.  The call     *)
(* panics at the first indexing of a slice with that channel; its deferred  *)
(* n.mu.Unlock() runs, and a caller that recovers keeps the node with what  *)
(* the call wrote before the panic.                                         *)

\* The runtime error "index out of range" a recovered panic yields.
ErrIndex == Err("IndexOutOfRange")

\* The selections over the channels of a form of nC channels and the
\* channel nC, the first one out of range, that name it at least once.
RangeSelections(nC) ==
  {cs \in UNION {[1..l -> 0..nC] : l \in 1..nC} :
     \E k \in 1..Len(cs) : cs[k] = nC}

\* The position in cs of the first channel out of range.
FirstOut(nC, cs) == Min({k \in 1..Len(cs) : cs[k] \notin 0..(nC - 1)})

\* packet{}: the zero packet; its nil cmap is shown as the empty tables.
packetZero ==
  [cmap |-> [m |-> <<>>, i |-> <<>>], err |-> Nil, n |-> 0, len |-> 0,
   nC |-> 0, src |-> 0, snk |-> 0, resp |-> FALSE, coll |-> FALSE, io |-> 0]

\* SetInput(src, cs...) with cs out of range: the first loop of
\* ckInputsUnique (io.go 346-350) returns at a claimed channel it meets
\* before the one out of range, and panics at n.icCounts[c] otherwise.
SetInputRangeOp(nd, rateOk, cs) ==
  IF ~rateOk
  THEN [err |-> ErrFrequency, nd |-> nd]
  ELSE LET had == {k \in 1..(FirstOut(nd.iC, cs) - 1) : nd.icCounts[cs[k]] > 0}
       IN IF had # {}
          THEN [err |-> ErrHasInput(cs[Min(had)]), nd |-> nd]
          ELSE [err |-> ErrIndex, nd |-> nd]

\* AddOutput(d, cs...) with cs out of range: the loop of io.go 169-171 has
\* incremented the counter of every channel before the one it panics at.
AddOutputRangeOp(nd, rateOk, dCh, cs) ==
  IF ~rateOk THEN [err |-> ErrFrequency, nd |-> nd]
  ELSE IF dCh # Len(cs) THEN [err |-> ErrChannels, nd |-> nd]
  ELSE [err |-> ErrIndex,
        nd |-> [nd EXCEPT
                  !.ocCounts =
                    [c \in 0..(nd.oC - 1) |->
                       nd.ocCounts[c]
                         + Cardinality({k \in 1..(FirstOut(nd.oC, cs) - 1) :
                                          cs[k] = c})]]]

\* Output(cs...) with cs out of range: the counters are incremented and the
\* connection and packet{} appended (io.go 130-144) before pkt.init calls
\* newCmap, which panics at res.m[c] = i (cmap.go 36-39) before it returns:
\* the packet keeps its nil cmap, and sound.Pipe is not reached.
OutputRangeOp(nd, cs) ==
  [err |-> ErrIndex,
   nd |-> [nd EXCEPT
             !.ocCounts = outputCounts(nd, cs),
             !.outs = Append(@, newConn),
             !.oPkts = Append(@, packetZero)]]

\* n.SetInput(src, cs...) with cs out of range, the panic recovered.
SetInputRange(n, rateOk, cs) ==
  LET r == SetInputRangeOp(node[n], rateOk, cs)
  IN /\ NoPanic
     /\ Wirable(node[n])
     /\ Len(node[n].ins) < MaxConns
     /\ node' = [node EXCEPT ![n] = [r.nd EXCEPT !.ret = r.err]]
     /\ UNCHANGED <<streams, consumer, callers, graph, test>>

\* n.AddOutput(d, cs...) with cs out of range, the panic recovered.
AddOutputRange(n, rateOk, dCh, cs) ==
  LET r == AddOutputRangeOp(node[n], rateOk, dCh, cs)
  IN /\ NoPanic
     /\ Wirable(node[n])
     /\ Len(node[n].outs) < MaxConns
     /\ node' = [node EXCEPT ![n] = [r.nd EXCEPT !.ret = r.err]]
     /\ UNCHANGED <<streams, consumer, callers, graph, test>>

\* n.Output(cs...) with cs out of range, the panic recovered.
OutputRange(n, cs) ==
  LET r == OutputRangeOp(node[n], cs)
  IN /\ NoPanic
     /\ Wirable(node[n])
     /\ Len(node[n].outs) < MaxConns
     /\ node' = [node EXCEPT ![n] = [r.nd EXCEPT !.ret = r.err]]
     /\ UNCHANGED <<streams, consumer, callers, graph, test>>

\* A panicking AddOutput registers no connection: the counters it may
\* raise are capped as the connections are.
Quota(n) ==
  \A c \in DOMAIN node[n].ocCounts : node[n].ocCounts[c] < MaxConns

\* The configuration phase with selections in range and out of range.
NextRange ==
  \/ \E n \in DOMAIN node : \E rateOk \in BOOLEAN :
       \E cs \in Selections(node[n].iC) : Budget(n) /\ SetInput(n, rateOk, cs)
  \/ \E n \in DOMAIN node : \E rateOk \in BOOLEAN : \E dCh \in 1..node[n].oC :
       \E cs \in Selections(node[n].oC) :
         Budget(n) /\ AddOutput(n, rateOk, dCh, cs)
  \/ \E n \in DOMAIN node : \E cs \in Selections(node[n].oC) :
       Budget(n) /\ Output(n, cs)
  \/ \E n \in DOMAIN node : \E rateOk \in BOOLEAN :
       \E cs \in RangeSelections(node[n].iC) :
         Budget(n) /\ SetInputRange(n, rateOk, cs)
  \/ \E n \in DOMAIN node : \E rateOk \in BOOLEAN : \E dCh \in 1..node[n].oC :
       \E cs \in RangeSelections(node[n].oC) :
         Budget(n) /\ Quota(n) /\ AddOutputRange(n, rateOk, dCh, cs)
  \/ \E n \in DOMAIN node : \E cs \in RangeSelections(node[n].oC) :
       Budget(n) /\ OutputRange(n, cs)

SpecRange == Init /\ [][NextRange]_vars

-----------------------------------------------------------------------------
(* A packet on its own, as TestPacketGet and TestPacketPut use it: a packet *)
(* initialised with a selection gathers from a block, then scatters into    *)
(* a second block of the same shape.                                        *)

\* The non-empty selections of distinct channels of a form of nC channels.
DistinctSelections(nC) ==
  {cs \in Selections(nC) :
     /\ Len(cs) > 0
     /\ \A j, k \in 1..Len(cs) : j # k => cs[j] # cs[k]}

\* blk.Samples[i] = float64(i), as packet_test.go 51-53 fills the block.
Labelled(C, F) == [k \in 1..(C * F) |-> k]

\* The second block holds values that no sample of the first block has.
Marked(C, F) == [k \in 1..(C * F) |-> 0 - k]

\* pkt.init(v, cs...) on a packet whose samples slice is stale (a packet
\* keeps its array from one cycle to the next) or nil.
InitPacket ==
  /\ \E C \in 1..MaxChannels : \E F \in 0..BlockFrames :
       \E cs \in DistinctSelections(C) :
         \E stale \in {<<>>, [k \in 1..(MaxChannels * BlockFrames) |-> 0]} :
           test = [pc |-> "init", C |-> C, F |-> F, cs |-> cs,
                   pkt |-> [cmap |-> newCmap(C, cs), n |-> 0,
                            samples |-> [arr |-> stale, len |-> 0]],
                   blk |-> [Frames |-> F, Channels |-> C,
                            Samples |-> Labelled(C, F)],
                   dst |-> [Frames |-> F, Channels |-> C,
                            Samples |-> Marked(C, F)],
                   ret |-> -1]
  /\ node = <<>>
  /\ streams = <<>>
  /\ consumer = [ttl |-> 0, eof |-> FALSE, F |-> 0]
  /\ callers = <<>>
  /\ graph = NoGraph

\* pkt.get(blk)
TestGet ==
  /\ test.pc = "init"
  /\ test' = [test EXCEPT !.pkt = packetGet(test.pkt, test.blk), !.pc = "got"]
  /\ UNCHANGED <<node, streams, consumer, callers, graph>>

\* pkt.put(dst)
TestPut ==
  /\ test.pc = "got"
  /\ LET r == packetPut(test.pkt, test.dst)
     IN test' = [test EXCEPT !.dst = r.dst, !.ret = r.ret, !.pc = "put"]
  /\ UNCHANGED <<node, streams, consumer, callers, graph>>

NextPacket ==
  \/ TestGet
  \/ TestPut

SpecPacket == InitPacket /\ [][NextPacket]_vars

-----------------------------------------------------------------------------
(* Chains of pass-through nodes, wired as TestIOMonoChain wires them, each  *)
(* node's Run in its own goroutine, and the test's loop reading the last    *)
(* node's output.                                                           *)

Mono == New(MonoChannels, MonoChannels, PassThrough)

\* One node: u0.SetInput(ops.Limit(gen.Noise(), F)); out := u0.Output().
Chain1(F) ==
  [node |-> <<OutputOp(SetInputOp(Mono, 1, TRUE, <<>>).nd, 2, <<>>)>>,
   streams |-> <<Stream("limit", MonoChannels, F),
                 Stream("pipe", MonoChannels, 0)>>]

\* Three nodes: u2.SetInput(u1.Output()); u1.SetInput(u0.Output());
\* u0.SetInput(ops.Limit(gen.Noise(), F)); out := u2.Output().
Chain3(F) ==
  LET u1a == OutputOp(Mono, 1, <<>>)
      u2a == SetInputOp(Mono, 1, TRUE, <<>>).nd
      u0a == OutputOp(Mono, 2, <<>>)
      u1b == SetInputOp(u1a, 2, TRUE, <<>>).nd
      u0b == SetInputOp(u0a, 3, TRUE, <<>>).nd
      u2b == OutputOp(u2a, 4, <<>>)
  IN [node |-> <<u0b, u1b, u2b>>,
      streams |-> <<Stream("pipe", MonoChannels, 0),
                    Stream("pipe", MonoChannels, 0),
                    Stream("limit", MonoChannels, F),
                    Stream("pipe", MonoChannels, 0)>>]

InitChain ==
  \E F \in 0..MaxFrames : \E c \in {Chain1(F), Chain3(F)} :
    /\ node = c.node
    /\ streams = c.streams
    /\ consumer = [ttl |-> 0, eof |-> FALSE, F |-> F]
    /\ callers = <<>>
    /\ graph = NoGraph
    /\ test = NoTest

NextChain ==
  \/ \E n \in DOMAIN node : RunStart(n)
  \/ \E n \in DOMAIN node : ProcessTop(n)
  \/ \E n \in DOMAIN node : \E w \in 1..MaxConns : SendIn(n, w)
  \/ \E n \in DOMAIN node : \E w \in 1..MaxConns : RecvIn(n, w)
  \/ \E n \in DOMAIN node : ProcCall(n)
  \/ \E n \in DOMAIN node : \E w \in 1..MaxConns : SendOut(n, w)
  \/ \E n \in DOMAIN node : \E w \in 1..MaxConns : RecvOut(n, w)
  \/ \E n \in DOMAIN node : RunDefer(n)
  \/ \E n \in DOMAIN node : \E dir \in {"in", "out"} :
       \E w \in 1..MaxConns : WorkerIO(n, dir, w)
  \/ \E n \in DOMAIN node : \E dir \in {"in", "out"} :
       \E w \in 1..MaxConns : WorkerDone(n, dir, w)
  \/ \E s \in DOMAIN streams : ConsumerReceive(s)

SpecChain == InitChain /\ [][NextChain]_vars

\* The scheduler runs some goroutine that can take a step.
FairSpecChain == SpecChain /\ WF_vars(NextChain)

-----------------------------------------------------------------------------
(* Graph.Run and the caller's loop "for e := range g.Run()"                 *)

\* A Graph of the nodes ns on which Run has not been called.
NewGraph(ns) == [NoGraph EXCEPT !.nodes = ns, !.pc = "idle"]

\* g.Run() is called: c := make(chan error); var wg sync.WaitGroup.
GraphRun ==
  /\ NoPanic
  /\ graph.pc = "idle"
  /\ graph' = [graph EXCEPT !.pc = "loop", !.i = 1]
  /\ UNCHANGED <<node, streams, consumer, callers, test>>

\* One iteration of "for _, n := range g.nodes": n is assigned, wg.Add(1),
\* and a goroutine is started.
GraphSpawn ==
  /\ NoPanic
  /\ graph.pc = "loop" /\ graph.i <= Len(graph.nodes)
  /\ graph' = [graph EXCEPT !.n = graph.nodes[graph.i],
                            !.wg = @ + 1,
                            !.gos = Append(@, [st |-> "new", t |-> 0, err |-> Nil]),
                            !.i = @ + 1]
  /\ UNCHANGED <<node, streams, consumer, callers, test>>

\* After the loop: the goroutine of wg.Wait() is started and c is returned;
\* the caller enters its range loop.
GraphReturn ==
  /\ NoPanic
  /\ graph.pc = "loop" /\ graph.i > Len(graph.nodes)
  /\ graph' = [graph EXCEPT !.pc = "range", !.waiter = "wait"]
  /\ UNCHANGED <<node, streams, consumer, callers, test>>

\* The node the closure of goroutine k finds in n: the node of its own
\* iteration when each iteration has its own n, the node n holds now when
\* the loop has one n for all iterations.
Captured(k) == {graph.nodes[k], graph.n}

\* Goroutine k: err := n.Run(), up to the first call of process().
GoCall(k, t) ==
  /\ NoPanic
  /\ k \in DOMAIN graph.gos /\ graph.gos[k].st = "new"
  /\ t \in Captured(k)
  /\ Wirable(node[t])
  /\ node' = [node EXCEPT ![t] = RunCalled(node[t])]
  /\ graph' = [graph EXCEPT !.gos[k] = [st |-> "run", t |-> t, err |-> Nil]]
  /\ UNCHANGED <<streams, consumer, callers, test>>

\* Goroutine k: n.Run() has returned err; a nil err ends the goroutine.
GoReturn(k) ==
  LET g == graph.gos[k]
  IN /\ NoPanic
     /\ k \in DOMAIN graph.gos /\ g.st = "run"
     /\ node[g.t].run = "returned"
     /\ graph' = [graph EXCEPT !.gos[k] =
                     [g EXCEPT !.err = node[g.t].result,
                               !.st = IF node[g.t].result = Nil THEN "done"
                                      ELSE "send"]]
     /\ UNCHANGED <<node, streams, consumer, callers, test>>

\* Goroutine k sends its error on c and the range loop receives it.
GoSend(k) ==
  LET g == graph.gos[k]
  IN /\ NoPanic
     /\ k \in DOMAIN graph.gos /\ g.st = "send"
     /\ graph.pc = "range" /\ ~graph.closed
     /\ graph' = [graph EXCEPT !.gos[k].st = "done", !.got = Append(@, g.err)]
     /\ UNCHANGED <<node, streams, consumer, callers, test>>

\* The last goroutine: wg.Wait() returns when the counter is 0, then
\* close(c).  No goroutine calls wg.Done().
GraphWait ==
  /\ NoPanic
  /\ graph.waiter = "wait"
  /\ graph.wg = 0
  /\ graph' = [graph EXCEPT !.waiter = "closed", !.closed = TRUE]
  /\ UNCHANGED <<node, streams, consumer, callers, test>>

\* The range loop ends when it finds c closed.
GraphRangeEnd ==
  /\ NoPanic
  /\ graph.pc = "range" /\ graph.closed
  /\ graph' = [graph EXCEPT !.pc = "done"]
  /\ UNCHANGED <<node, streams, consumer, callers, test>>

\* A node of a graph: not wired at all, or a mono pass-through node with a
\* source of one frame and a sink; node k uses endpoints 2k-1 and 2k.
GraphNode(k, wired) ==
  IF wired
  THEN AddOutputOp(SetInputOp(Mono, 2 * k - 1, TRUE, <<>>).nd,
                   2 * k, TRUE, MonoChannels, <<>>).nd
  ELSE Mono

GraphStream(s, wired) ==
  IF ~wired[(s + 1) \div 2] THEN NoStream
  ELSE IF s % 2 = 1 THEN Stream("limit", MonoChannels, 1)
  ELSE Stream("sink", MonoChannels, 0)

\* g.New called 0 to MaxNodes times, the nodes wired or not.
InitGraph ==
  \E N \in 0..MaxNodes : \E wired \in [1..N -> BOOLEAN] :
    /\ node = [k \in 1..N |-> GraphNode(k, wired[k])]
    /\ streams = [s \in 1..(2 * N) |-> GraphStream(s, wired)]
    /\ consumer = [ttl |-> 0, eof |-> FALSE, F |-> 0]
    /\ callers = <<>>
    /\ graph = NewGraph([k \in 1..N |-> k])
    /\ test = NoTest

NextGraph ==
  \/ GraphRun
  \/ GraphSpawn
  \/ GraphReturn
  \/ \E k \in DOMAIN graph.gos : \E t \in DOMAIN node : GoCall(k, t)
  \/ \E k \in DOMAIN graph.gos : GoReturn(k)
  \/ \E k \in DOMAIN graph.gos : GoSend(k)
  \/ GraphWait
  \/ GraphRangeEnd
  \/ \E n \in DOMAIN node : ProcessTop(n)
  \/ \E n \in DOMAIN node : \E w \in 1..MaxConns : SendIn(n, w)
  \/ \E n \in DOMAIN node : \E w \in 1..MaxConns : RecvIn(n, w)
  \/ \E n \in DOMAIN node : ProcCall(n)
  \/ \E n \in DOMAIN node : \E w \in 1..MaxConns : SendOut(n, w)
  \/ \E n \in DOMAIN node : \E w \in 1..MaxConns : RecvOut(n, w)
  \/ \E n \in DOMAIN node : RunDefer(n)
  \/ \E n \in DOMAIN node : \E dir \in {"in", "out"} :
       \E w \in 1..MaxConns : WorkerIO(n, dir, w)
  \/ \E n \in DOMAIN node : \E dir \in {"in", "out"} :
       \E w \in 1..MaxConns : WorkerDone(n, dir, w)

SpecGraph == InitGraph /\ [][NextGraph]_vars

\* Every goroutine that can take a step eventually takes one.
FairSpecGraph == SpecGraph /\ WF_vars(NextGraph)

-----------------------------------------------------------------------------
(* Properties *)

Workers(nd) ==
  {nd.ins[w] : w \in 1..Len(nd.ins)} \cup {nd.outs[w] : w \in 1..Len(nd.outs)}

\* The cancellation signal of node n is closed and Close has been called
\* exactly once on the sink of each of its output packets and on the source
\* of each of its input packets.
ClosedOnce(n) ==
  /\ node[n].doneClosed
  /\ \A i \in 1..Len(node[n].oPkts) : streams[node[n].oPkts[i].snk].wcl = 1
  /\ \A i \in 1..Len(node[n].iPkts) : streams[node[n].iPkts[i].src].rcl = 1

\* C1: in a chain of one or of three pass-through nodes whose first source
\* delivers F frames in blocks of any sizes and then io.EOF, the reader of
\* the last output ends up having received exactly F frames and then io.EOF,
\* with every node's Run returned nil.
C1_FrameConservation ==
  <>[](/\ consumer.eof
       /\ consumer.ttl = consumer.F
       /\ \A n \in DOMAIN node :
            node[n].run = "returned" /\ node[n].result = Nil)

C1_Witness ==
  /\ Len(node) = 3
  /\ consumer.eof
  /\ consumer.F = MaxFrames
  /\ consumer.ttl = MaxFrames
  /\ \A n \in DOMAIN node : node[n].run = "returned" /\ node[n].result = Nil

\* C2: the step in which Run returns (after a failed connectivity check, a
\* clean end of stream, a stream error or an error of the processor) leaves
\* the cancellation signal closed and every registered sink and source
\* closed exactly once.
C2_ClosedOnReturn ==
  [][\A n \in DOMAIN node :
       (node[n].run = "running" /\ node'[n].run = "returned")
         => ClosedOnce(n)']_vars

C2_Witness ==
  \E n \in DOMAIN node :
    /\ node[n].run = "returned"
    /\ node[n].result = ErrStream
    /\ Len(node[n].iPkts) = 2
    /\ Len(node[n].oPkts) = 2
    /\ ClosedOnce(n)

\* C3: a Run that entered process() returns only after a cycle that ended
\* with an error, which is the error of a collected packet or the error of
\* the processor; it returns nil when that error is io.EOF and the error
\* itself otherwise; and no request of a further cycle is issued once a
\* cycle has ended with an error.
C3_RunResult ==
  \A n \in DOMAIN node :
    LET nd == node[n]
    IN /\ (nd.run = "returned" /\ nd.began) =>
            /\ nd.cycErr # Nil
            /\ nd.cycErr = EOF => nd.result = Nil
            /\ nd.cycErr # EOF => nd.result = nd.cycErr
            /\ \/ nd.cycErr = ErrProc
               \/ \E i \in 1..Len(nd.iPkts) :
                    nd.iPkts[i].coll /\ nd.iPkts[i].err = nd.cycErr
               \/ \E i \in 1..Len(nd.oPkts) :
                    nd.oPkts[i].coll /\ nd.oPkts[i].err = nd.cycErr
       /\ nd.pc \in {"top", "sendIn", "recvIn", "proc", "sendOut", "recvOut"}
            => nd.cycErr = Nil

C3_Witness ==
  \E n \in DOMAIN node :
    /\ node[n].run = "returned"
    /\ node[n].began
    /\ node[n].cycErr = EOF
    /\ node[n].result = Nil

\* C4: a Run called on a node with an unclaimed channel ends with a
\* DisconnectedError that names the first unclaimed input channel if there
\* is one and the first unclaimed output channel otherwise, and a Run that
\* ends so starts no worker and never enters process().
C4_Disconnected ==
  /\ [][\A n \in DOMAIN node :
          LET ui == {c \in 0..(node[n].iC - 1) : node[n].icCounts[c] = 0}
              uo == {c \in 0..(node[n].oC - 1) : node[n].ocCounts[c] = 0}
          IN (node[n].run = "idle" /\ node'[n].run # "idle" /\ ui \cup uo # {})
               => /\ node'[n].result.kind = "Disconnected"
                  /\ node'[n].pc = "defer"
                  /\ ui # {} => /\ node'[n].result.IsInput
                                /\ node'[n].result.Chan \in ui
                  /\ ui = {} => /\ ~node'[n].result.IsInput
                                /\ node'[n].result.Chan \in uo]_vars
  /\ [](\A n \in DOMAIN node :
          node[n].result.kind = "Disconnected"
            => /\ ~node[n].began
               /\ \A c \in Workers(node[n]) : c.st = "new")

C4_Witness ==
  \E n \in DOMAIN node :
    /\ node[n].run = "returned"
    /\ node[n].result = dce(FALSE, 0)
    /\ Len(node[n].ins) = 2
    /\ \A c \in Workers(node[n]) : c.st = "new"
    /\ ~node[n].began

\* C5 as stated: when Run has returned, every worker it started has
\* terminated.
C5_WorkersGoneOnReturn ==
  \A n \in DOMAIN node :
    node[n].run = "returned" =>
      \A c \in Workers(node[n]) : c.st \in {"new", "exit"}

\* C5 as amended: when Run has returned the cancellation signal is closed,
\* and a worker that is waiting in one of its two selects from then on
\* leaves it only by terminating; workers may still be running at the return.
C5_WorkersCancelled ==
  /\ [](\A n \in DOMAIN node : node[n].run = "returned" => node[n].doneClosed)
  /\ [][\A n \in DOMAIN node :
          node[n].run = "returned" =>
            /\ \A w \in 1..Len(node[n].ins) :
                 (node[n].ins[w].st \in {"select", "deliver"}
                    /\ node'[n].ins[w] # node[n].ins[w])
                   => node'[n].ins[w].st = "exit"
            /\ \A w \in 1..Len(node[n].outs) :
                 (node[n].outs[w].st \in {"select", "deliver"}
                    /\ node'[n].outs[w] # node[n].outs[w])
                   => node'[n].outs[w].st = "exit"]_vars

C5_Witness ==
  \E n \in DOMAIN node :
    /\ node[n].run = "returned"
    /\ \E c \in Workers(node[n]) : c.st = "io"
    /\ \E c \in Workers(node[n]) : c.st = "exit"

\* The channels a SetInput(src, cs...) claims.
Claimed(nd, cs) ==
  IF Len(cs) = 0 THEN 0..(nd.iC - 1) ELSE {cs[k] : k \in 1..Len(cs)}

\* The wiring tables of the input side of node n are as before the step.
InputsUnchanged(n) ==
  /\ node'[n].icCounts = node[n].icCounts
  /\ node'[n].ins = node[n].ins
  /\ node'[n].iPkts = node[n].iPkts

\* C6: a SetInput that claims a channel an earlier SetInput has claimed
\* returns an error and leaves the input counters, connections and packets
\* as they were; so each input channel is mapped by at most one registered
\* input connection and each input counter is 0 or 1.
C6_InputClaimedOnce ==
  /\ [][\A n \in DOMAIN node : \A rateOk \in BOOLEAN :
          \A cs \in Selections(node[n].iC) :
            (/\ SetInput(n, rateOk, cs)
             /\ \E c \in Claimed(node[n], cs) : node[n].icCounts[c] > 0)
              => (node'[n].ret # Nil /\ InputsUnchanged(n))]_vars
  /\ [](\A n \in DOMAIN node : \A c \in 0..(node[n].iC - 1) :
          /\ node[n].icCounts[c] \in {0, 1}
          /\ Cardinality({i \in 1..Len(node[n].iPkts) :
                            mapC(node[n].iPkts[i].cmap, c) # -1}) <= 1)

C6_Witness ==
  \E n \in DOMAIN node :
    /\ node[n].ret.kind = "ErrHasInput"
    /\ Len(node[n].iPkts) = 1
    /\ node[n].icCounts[node[n].ret.Chan] = 1

\* C7 as stated: a SetInput whose own selection names a channel twice fails
\* and registers nothing, so no registered input packet has a selection
\* that names a channel twice.
C7_NoDuplicateInSelection ==
  \A n \in DOMAIN node : \A i \in 1..Len(node[n].iPkts) :
    LET inv == node[n].iPkts[i].cmap.i
    IN \A a, b \in DOMAIN inv : inv[a] = inv[b] => a = b

\* The number of times the registered output connections of nd claim
\* channel c: once per occurrence of c in a connection's inverse table.
RECURSIVE OutputClaims(_, _, _)
OutputClaims(nd, c, k) ==
  IF k = 0 THEN 0
  ELSE OutputClaims(nd, c, k - 1)
         + Cardinality({a \in DOMAIN nd.oPkts[k].cmap.i :
                          nd.oPkts[k].cmap.i[a] = c})

\* C8 as stated: the counter of each output channel is the number of times
\* the registered output connections claim the channel.
C8_OutputCountIsClaims ==
  \A n \in DOMAIN node : \A c \in 0..(node[n].oC - 1) :
    node[n].ocCounts[c] = OutputClaims(node[n], c, Len(node[n].oPkts))

\* C9 as stated: after Run has returned a connectivity error the node can be
\* wired further and run again: its signal and endpoints are still open and
\* the second Run does not panic.
C9_Recoverable ==
  \A n \in DOMAIN node :
    /\ (node[n].run = "returned" /\ node[n].result.kind = "Disconnected")
         => /\ ~node[n].doneClosed
            /\ \A i \in 1..Len(node[n].iPkts) :
                 streams[node[n].iPkts[i].src].rcl = 0
            /\ \A i \in 1..Len(node[n].oPkts) :
                 streams[node[n].oPkts[i].snk].wcl = 0
    /\ node[n].runs >= 2 => node[n].run # "panicked"

\* C9 as amended: the Run that returns a connectivity error has closed the
\* cancellation signal and every endpoint registered so far, and a second
\* Run on the node never returns: when it reaches its return it panics.
C9_NotRecoverable ==
  /\ [][\A n \in DOMAIN node :
          (/\ node[n].run = "running"
           /\ node'[n].run = "returned"
           /\ node'[n].result.kind = "Disconnected") => ClosedOnce(n)']_vars
  /\ [](\A n \in DOMAIN node :
          /\ (node[n].run = "returned" /\ node[n].result.kind = "Disconnected")
               => node[n].doneClosed
          /\ node[n].runs >= 2 => node[n].run \in {"running", "panicked"})

C9_Witness ==
  \E n \in DOMAIN node :
    /\ node[n].runs = 2
    /\ node[n].run = "panicked"
    /\ ~node[n].panicking
    /\ node[n].began

\* C10 as stated: when two input connections have reported different frame
\* counts in a cycle, the cycle ends in the panic.
C10_MismatchPanics ==
  \A n \in DOMAIN node : \A i, j \in 1..Len(node[n].iPkts) :
    (/\ node[n].iPkts[i].resp /\ node[n].iPkts[j].resp
     /\ node[n].iPkts[i].n # node[n].iPkts[j].n
     /\ node[n].pc \notin {"sendIn", "recvIn"})
      => (node[n].panicking \/ node[n].run = "panicked")

\* C10 as amended: when the node has collected, in one cycle, the responses
\* of two input connections that both report no error and different frame
\* counts, the cycle ends in the panic, whatever the order of arrival; and
\* the processor is called only with all input packets at the same count.
C10_CollectedMismatchPanics ==
  \A n \in DOMAIN node :
    /\ \A i, j \in 1..Len(node[n].iPkts) :
         (/\ node[n].iPkts[i].coll /\ node[n].iPkts[j].coll
          /\ node[n].iPkts[i].err = Nil /\ node[n].iPkts[j].err = Nil
          /\ node[n].iPkts[i].n # node[n].iPkts[j].n)
           => (node[n].panicking /\ node[n].pc # "proc")
    /\ node[n].pc = "proc" =>
         \A i \in 1..Len(node[n].iPkts) : node[n].iPkts[i].n = node[n].iFrames

C10_Witness ==
  \E n \in DOMAIN node :
    /\ node[n].run = "panicked"
    /\ node[n].panicking
    /\ Len(node[n].iPkts) = 2
    /\ node[n].iPkts[1].coll /\ node[n].iPkts[2].coll
    /\ node[n].iPkts[1].n > node[n].iPkts[2].n
    /\ node[n].iPkts[2].err = Nil

-----------------------------------------------------------------------------
(* The arguments of proc.Process *)

\* C11 as stated: in MonoMode every call of Process made by a cycle is given
\* a src and a dst of one channel, and once the per-channel calls are over
\* the two blocks have their node-wide channel counts and sample slices.
C11_MonoChannelsPinned ==
  \A n \in DOMAIN node :
    LET nd == node[n]
    IN /\ (nd.args.made /\ nd.proc.mode = MonoMode)
            => (nd.args.src.Channels = 1 /\ nd.args.dst.Channels = 1)
       /\ (nd.proc.mode = MonoMode /\ nd.pc \in {"sendOut", "recvOut"})
            => /\ nd.iBlock = [Channels |-> nd.iC,
                               Samples |-> nd.iC * nd.proc.inFrames]
               /\ nd.oBlock = [Channels |-> nd.oC,
                               Samples |-> nd.oC * nd.proc.outFrames]

\* C12 as stated: every call of Process made by a cycle is given
\* dst.Frames = M and 1 <= src.Frames <= N, for the (N, M) that NextFrames
\* returned when the cycle began.
C12_FramesAtProcess ==
  \A n \in DOMAIN node :
    node[n].args.made
      => /\ node[n].args.dst.Frames = node[n].proc.outFrames
         /\ 1 <= node[n].args.src.Frames
         /\ node[n].args.src.Frames <= node[n].proc.inFrames

\* C13 as stated: SetInput fails and registers nothing when the source's
\* channel count is not the node's input channel count (no selection) or
\* the length of the selection, so the source of every registered input
\* packet has as many channels as the packet.
C13_SourceChannelsChecked ==
  \A n \in DOMAIN node : \A i \in 1..Len(node[n].iPkts) :
    streams[node[n].iPkts[i].src].ch = node[n].iPkts[i].nC

-----------------------------------------------------------------------------
(* Concurrent wiring calls *)

\* The wiring tables of a node.
WiringOf(nd) ==
  [icCounts |-> nd.icCounts, ocCounts |-> nd.ocCounts,
   ins |-> nd.ins, outs |-> nd.outs, iPkts |-> nd.iPkts, oPkts |-> nd.oPkts]

\* The outcomes of the calls of the callers in S made one after the other,
\* in every order, from the outcome x of the calls made before them.
RECURSIVE SerialOutcomes(_, _)
SerialOutcomes(x, S) ==
  IF S = {} THEN {x}
  ELSE UNION {LET r == ApplyCall(x.nd, callers[c].call)
              IN SerialOutcomes(
                   [nd |-> r.nd,
                    ret |-> [d \in DOMAIN callers |->
                               IF d = c THEN r.err ELSE x.ret[d]]],
                   S \ {c}) : c \in S}

\* C14: at most one caller is inside a wiring call at a time, and when all
\* callers have returned, the node's counters, connection lists and packet
\* lists and the errors returned are those of the same calls made one after
\* the other in some order.
C14_WiringAtomic ==
  /\ Cardinality({c \in DOMAIN callers :
                    callers[c].pc \in {"check", "register", "unlock"}}) <= 1
  /\ (\A c \in DOMAIN callers : callers[c].pc = "done")
       => \E x \in SerialOutcomes(
                     [nd |-> New(node[1].iC, node[1].oC, node[1].proc),
                      ret |-> [c \in DOMAIN callers |-> Nil]],
                     DOMAIN callers) :
            /\ WiringOf(x.nd) = WiringOf(node[1])
            /\ \A c \in DOMAIN callers : x.ret[c] = callers[c].ret

C14_Witness ==
  /\ \A c \in DOMAIN callers :
       callers[c].pc = "done" /\ callers[c].call = CallSetInput(TRUE, <<0>>)
  /\ Cardinality({c \in DOMAIN callers : callers[c].ret = Nil}) = 1
  /\ Len(node[1].iPkts) = 1

-----------------------------------------------------------------------------
(* Graph.Run *)

\* C15 as stated: Run is called on every node of the graph, and once every
\* Run has returned and every error has been received the error channel is
\* closed, so that the loop over it ends.
C15_GraphRunCloses ==
  /\ <>(\A n \in DOMAIN node : node[n].runs >= 1)
  /\ <>(graph.closed /\ graph.pc = "done")

-----------------------------------------------------------------------------
(* The hand-off protocol between a node and its workers *)

\* A worker of direction dir holds packet p: it has received the request
\* and has not yet delivered the response.
Held(nd, dir, p) ==
  \E w \in 1..Len(Conns(nd, dir)) :
    Conns(nd, dir)[w].pkt = p /\ Conns(nd, dir)[w].st \in {"io", "deliver"}

HeldAny(nd, dir) == \E p \in 1..Len(Pkts(nd, dir)) : Held(nd, dir, p)

\* The phases of process() in the order of one cycle, and the steps from a
\* phase to the next one.
PhaseSteps ==
  {<<"none", "top">>, <<"top", "sendIn">>, <<"sendIn", "recvIn">>,
   <<"recvIn", "proc">>, <<"proc", "sendOut">>, <<"sendOut", "recvOut">>,
   <<"recvOut", "top">>}

\* C16: the computation is called only when a response of every input
\* packet has been collected in the cycle, output requests are issued only
\* after the computation returned, the next cycle's requests only after an
\* acknowledgement of every output packet has been collected, and the
\* cycles of a node follow each other phase by phase.
C16_PhaseOrder ==
  /\ [][\A n \in DOMAIN node :
          node'[n].pc # node[n].pc
            => \/ <<node[n].pc, node'[n].pc>> \in PhaseSteps
               \/ node'[n].pc = "defer"
               \/ node[n].pc = "defer" /\ node'[n].pc = "none"]_vars
  /\ [](\A n \in DOMAIN node :
          LET nd == node[n]
          IN /\ nd.pc \in {"top", "proc"}
                  => ~HeldAny(nd, "in") /\ ~HeldAny(nd, "out")
             /\ nd.pc \in {"sendIn", "recvIn"} => ~HeldAny(nd, "out")
             /\ nd.pc \in {"proc", "sendOut", "recvOut"}
                  => /\ ~HeldAny(nd, "in")
                     /\ \A i \in 1..Len(nd.iPkts) :
                          nd.iPkts[i].resp /\ nd.iPkts[i].coll
             /\ (nd.pc \in {"top", "sendIn", "recvIn"} /\ nd.args.made)
                  => \A i \in 1..Len(nd.oPkts) :
                       nd.oPkts[i].resp /\ nd.oPkts[i].coll)

C16_Witness ==
  \E n \in DOMAIN node :
    /\ node[n].pc = "recvIn" /\ node[n].args.made
    /\ Len(node[n].iPkts) = 2 /\ Len(node[n].oPkts) = 2
    /\ HeldAny(node[n], "in")

\* C17: requests and responses of a packet alternate.  A packet is handed
\* to a worker only when no worker holds it; the worker that holds it makes
\* the external call once, before it offers the response; and a packet
\* whose response the node has collected is held by no worker.
C17_RequestResponse ==
  /\ [][\A n \in DOMAIN node : \A dir \in {"in", "out"} :
          \A p \in 1..Len(Pkts(node[n], dir)) :
            /\ (\E w \in 1..Len(Conns(node[n], dir)) :
                   /\ Conns(node[n], dir)[w].st = "select"
                   /\ Conns(node[n], dir)'[w] = [st |-> "io", pkt |-> p])
                  => /\ ~Held(node[n], dir, p)
                     /\ Pkts(node[n], dir)[p].resp => Pkts(node[n], dir)[p].coll
            /\ (Pkts(node[n], dir)'[p].resp /\ ~Pkts(node[n], dir)[p].resp)
                  => \E w \in 1..Len(Conns(node[n], dir)) :
                       /\ Conns(node[n], dir)[w] = [st |-> "io", pkt |-> p]
                       /\ Conns(node[n], dir)'[w] = [st |-> "deliver", pkt |-> p]]_vars
  /\ [](\A n \in DOMAIN node : \A dir \in {"in", "out"} :
          \A w \in 1..Len(Conns(node[n], dir)) :
            LET conn == Conns(node[n], dir)[w]
            IN /\ conn.st = "io"
                    => ~Pkts(node[n], dir)[conn.pkt].resp
               /\ conn.st = "deliver"
                    => Pkts(node[n], dir)[conn.pkt].resp
               /\ conn.st \in {"io", "deliver"}
                    => ~Pkts(node[n], dir)[conn.pkt].coll)

C17_Witness ==
  \E n \in DOMAIN node :
    /\ node[n].args.made
    /\ \E w \in 1..Len(node[n].ins) :
         /\ node[n].ins[w].st = "deliver"
         /\ node[n].iPkts[node[n].ins[w].pkt].io # 0

\* C18: the node writes a packet only when no worker holds it, no two
\* workers hold the same packet, and a step of a worker leaves the input
\* and output blocks as they are.
C18_ExclusiveHandOff ==
  /\ [][\A n \in DOMAIN node :
          (node'[n].pc = node[n].pc /\ node'[n].idx = node[n].idx)
            => /\ node'[n].iBlock = node[n].iBlock
               /\ node'[n].oBlock = node[n].oBlock
               /\ node'[n].iFrames = node[n].iFrames
               /\ node'[n].oFrames = node[n].oFrames]_vars
  /\ [](\A n \in DOMAIN node :
          LET nd == node[n]
          IN /\ nd.pc = "sendIn" => ~Held(nd, "in", nd.idx)
             /\ nd.pc = "sendOut" => ~Held(nd, "out", nd.idx)
             /\ \A dir \in {"in", "out"} :
                  \A v, w \in 1..Len(Conns(nd, dir)) :
                    (/\ v # w
                     /\ Conns(nd, dir)[v].st \in {"io", "deliver"}
                     /\ Conns(nd, dir)[w].st \in {"io", "deliver"})
                      => Conns(nd, dir)[v].pkt # Conns(nd, dir)[w].pkt)

C18_Witness ==
  \E n \in DOMAIN node :
    /\ node[n].pc = "sendOut" /\ node[n].idx = 2
    /\ Held(node[n], "out", 1)
    /\ node[n].oPkts[1].resp

\* C19 as stated: the worker started for the w-th connection of a direction
\* only ever holds the w-th packet of that direction.
C19_WorkerBoundToPacket ==
  \A n \in DOMAIN node : \A dir \in {"in", "out"} :
    \A w \in 1..Len(Conns(node[n], dir)) :
      Conns(node[n], dir)[w].st \in {"io", "deliver"}
        => Conns(node[n], dir)[w].pkt = w

\* C19 as amended: every external call made for a packet is made on the
\* endpoint registered by the call that registered the packet, whichever
\* worker of the packet's direction makes it.
C19_PacketBoundToEndpoint ==
  \A n \in DOMAIN node :
    /\ \A p \in 1..Len(node[n].iPkts) :
         node[n].iPkts[p].io \in {0, InputStream(p)}
    /\ \A p \in 1..Len(node[n].oPkts) :
         node[n].oPkts[p].io \in {0, OutputStream(p)}

C19_Witness ==
  \E n \in DOMAIN node : \E w \in 1..Len(node[n].ins) :
    /\ node[n].ins[w].st = "deliver"
    /\ node[n].ins[w].pkt # w
    /\ node[n].iPkts[node[n].ins[w].pkt].io = InputStream(node[n].ins[w].pkt)

\* C20: after Run has returned every worker it started terminates.
C20_NoWorkerLeak ==
  (node[1].run = "returned")
    ~> (\A dir \in {"in", "out"} : \A w \in 1..Len(Conns(node[1], dir)) :
          Conns(node[1], dir)[w].st \in {"new", "exit"})

C20_Witness ==
  /\ node[1].run = "returned"
  /\ node[1].cycErr = ErrStream
  /\ \E w \in 1..Len(node[1].ins) : node[1].ins[w].st = "deliver"
  /\ \E w \in 1..Len(node[1].outs) : node[1].outs[w].st = "select"

-----------------------------------------------------------------------------
(* Wiring calls after Run was invoked *)

\* What the run loop reads of the wiring tables: the claim counters, the
\* number of connections of each direction and the packets' channel maps
\* and endpoints.
TablesOf(nd) ==
  [icCounts |-> nd.icCounts, ocCounts |-> nd.ocCounts,
   ins |-> Len(nd.ins), outs |-> Len(nd.outs),
   iPkts |-> [i \in DOMAIN nd.iPkts |->
                <<nd.iPkts[i].cmap, nd.iPkts[i].src>>],
   oPkts |-> [j \in DOMAIN nd.oPkts |->
                <<nd.oPkts[j].cmap, nd.oPkts[j].snk>>]]

\* C21: the wiring tables change only before Run is invoked: no step taken
\* while Run is running changes the claim counters, the connections or the
\* registered packets, and so no cycle issues a request for a connection
\* that has no worker.
C21_TablesFixedAfterRun ==
  [][\A n \in DOMAIN node :
       node[n].run = "running" =>
         /\ TablesOf(node'[n]) = TablesOf(node[n])
         /\ \A j \in DOMAIN node'[n].outs : node'[n].outs[j].st # "new"]_vars

-----------------------------------------------------------------------------
(* Gather and scatter *)

\* The frame-run of channel c (counted from 0) in a channel-major array of
\* runs of F samples.
FrameRun(arr, c, F) == [k \in 1..F |-> arr[c * F + k]]

\* C22: for every channel count C, frame count F and non-empty selection cs
\* of distinct channels, after get the local frame-run i of the packet is
\* the block's frame-run of channel cs[i]; after the put that follows, the
\* second block's frame-run of every channel of cs equals the first
\* block's, every other frame-run of the second block is as it was, and
\* put returned F.
C22_GatherScatterRoundTrip ==
  LET C == test.C
      F == test.F
      cs == test.cs
      sel == {cs[k] : k \in 1..Len(cs)}
  IN /\ test.pc \in {"got", "put"} =>
          /\ test.pkt.n = F
          /\ test.pkt.samples.len = Len(cs) * F
          /\ \A i \in 1..Len(cs) :
               FrameRun(test.pkt.samples.arr, i - 1, F)
                 = FrameRun(test.blk.Samples, cs[i], F)
     /\ test.pc = "put" =>
          /\ test.ret = F
          /\ Len(test.dst.Samples) = C * F
          /\ \A c \in sel :
               FrameRun(test.dst.Samples, c, F)
                 = FrameRun(test.blk.Samples, c, F)
          /\ \A c \in (0..(C - 1)) \ sel :
               FrameRun(test.dst.Samples, c, F)
                 = FrameRun(Marked(C, F), c, F)

\* A packet of a two-channel selection in reversed order, out of a form of
\* more channels, has gathered and scattered a block of at least one frame.
C22_Witness ==
  /\ test.pc = "put"
  /\ test.F > 0
  /\ Len(test.cs) = 2 /\ test.cs[1] > test.cs[2]
  /\ test.C > Len(test.cs)
  /\ test.pkt.samples.len > 0

-----------------------------------------------------------------------------
(* Block sizes *)

\* len(b.Samples) >= b.Channels * b.Frames, with b.Frames >= 0.
BlockHolds(b) == b.Frames >= 0 /\ b.Samples >= b.Channels * b.Frames

\* C23: once process() has grown the blocks, in every state - at every call
\* of proc.Process, each per-channel call in MonoMode included, and between
\* cycles - the input block and the output block have at least
\* Channels * Frames samples, with Frames >= 0.
C23_BlockSizes ==
  \A n \in DOMAIN node :
    LET nd == node[n]
    IN nd.began =>
         /\ BlockHolds([Frames |-> nd.iFrames, Channels |-> nd.iBlock.Channels,
                        Samples |-> nd.iBlock.Samples])
         /\ BlockHolds([Frames |-> nd.oFrames, Channels |-> nd.oBlock.Channels,
                        Samples |-> nd.oBlock.Samples])
         /\ nd.args.made => BlockHolds(nd.args.src) /\ BlockHolds(nd.args.dst)

-----------------------------------------------------------------------------
(* The request-issuing loops *)

\* Some worker of direction dir waits in its select.
Waiting(nd, dir) ==
  \E w \in 1..Len(Conns(nd, dir)) : Conns(nd, dir)[w].st = "select"

\* C24: the request-issuing loops cannot deadlock.  With no wiring call
\* after Run started its workers, whenever the node is about to send a
\* request on n.iC (n.oC) some input (output) worker waits in its select,
\* also while workers that finished their I/O are blocked delivering; so
\* every request is received and the node reaches the loop that collects
\* the responses of the phase.
C24_RequestsReceived ==
  /\ [](node[1].run = "running" /\ node[1].pc = "sendIn"
          => Waiting(node[1], "in"))
  /\ [](node[1].run = "running" /\ node[1].pc = "sendOut"
          => Waiting(node[1], "out"))
  /\ (node[1].run = "running" /\ node[1].pc = "sendIn")
       ~> (node[1].pc = "recvIn")
  /\ (node[1].run = "running" /\ node[1].pc = "sendOut")
       ~> (node[1].pc = "recvOut")

\* The node is about to send its second input request while the worker
\* that took the first has finished its I/O and is blocked delivering.
C24_Witness ==
  /\ node[1].run = "running" /\ node[1].pc = "sendIn" /\ node[1].idx = 2
  /\ \E w \in 1..Len(node[1].ins) : node[1].ins[w].st = "deliver"
  /\ \E w \in 1..Len(node[1].ins) : node[1].ins[w].st = "select"

-----------------------------------------------------------------------------
(* Selections out of range *)

\* C25: a wiring call that panics because its selection names a channel
\* out of range has no effect on the node: the claim counters, the
\* connection lists and the packet lists are as before the call, and the
\* lock is released.
C25_PanicHasNoEffect ==
  [][\A n \in DOMAIN node :
       (/\ \/ \E rateOk \in BOOLEAN : \E cs \in RangeSelections(node[n].iC) :
                SetInputRange(n, rateOk, cs)
           \/ \E rateOk \in BOOLEAN : \E dCh \in 1..node[n].oC :
                \E cs \in RangeSelections(node[n].oC) :
                  AddOutputRange(n, rateOk, dCh, cs)
           \/ \E cs \in RangeSelections(node[n].oC) : OutputRange(n, cs)
        /\ node'[n].ret = ErrIndex)
         => /\ WiringOf(node'[n]) = WiringOf(node[n])
            /\ Lock(node'[n])]_vars

====
